---- MODULE Spec2Model ----
(***************************************************************************)
(* Live Incident Status (LISv4.py): the ingestion -> extraction ->         *)
(* aggregation -> retirement pipeline over CAD export files.               *)
(*                                                                         *)
(* Strings whose characters the program inspects (file names, unit         *)
(* identifiers, unit types, call types, glob patterns) are sequences of    *)
(* one-character strings.  Opaque keys (locations, jurisdictions, agency   *)
(* types) are TLA+ strings.  Call numbers are the digits of the           *)
(* CallNumber text.  Parsed timestamps are minutes on one time line.       *)
(***************************************************************************)
EXTENDS Integers, Sequences, FiniteSets, TLC

\* Python's None, where an opaque key may stand
NULL == "None"

\* None where a text kept as a sequence of characters may stand
NoText == <<"None">>

\* None where a parsed timestamp (minutes, >= 0) may stand
NoTime == 0 - 1

\* None where a record (a unit, an address, a document root) may stand
NoRecord == [none |-> TRUE]

(***************************************************************************)
(* str methods                                                             *)
(***************************************************************************)
UpperCs == <<"A","B","C","D","E","F","G","H","I","J","K","L","M",
             "N","O","P","Q","R","S","T","U","V","W","X","Y","Z">>

LowerCs == <<"a","b","c","d","e","f","g","h","i","j","k","l","m",
             "n","o","p","q","r","s","t","u","v","w","x","y","z">>

Digits == <<"0","1","2","3","4","5","6","7","8","9">>

IsUpper(c) == \E i \in 1..26 : UpperCs[i] = c

IsLower(c) == \E i \in 1..26 : LowerCs[i] = c

IsAlpha(c) == IsUpper(c) \/ IsLower(c)

IsDigit(c) == \E i \in 1..10 : Digits[i] = c

LowerChar(c) ==
    IF IsUpper(c) THEN LowerCs[CHOOSE i \in 1..26 : UpperCs[i] = c] ELSE c

UpperChar(c) ==
    IF IsLower(c) THEN UpperCs[CHOOSE i \in 1..26 : LowerCs[i] = c] ELSE c

\* str.lower()
Lower(s) == [i \in 1..Len(s) |-> LowerChar(s[i])]

\* str.title(): a cased character is upper-cased after an uncased one (or at
\* the start) and lower-cased after a cased one
Title(s) ==
    [i \in 1..Len(s) |->
        IF i = 1 \/ ~IsAlpha(s[i-1]) THEN UpperChar(s[i]) ELSE LowerChar(s[i])]

\* str.endswith(suffix)
EndsWith(s, suffix) ==
    /\ Len(s) >= Len(suffix)
    /\ SubSeq(s, Len(s) - Len(suffix) + 1, Len(s)) = suffix

\* the `in` operator on two str values: substring test
IsSubstring(a, b) ==
    \E i \in 0..(Len(b) - Len(a)) : SubSeq(b, i + 1, i + Len(a)) = a

\* code points of the characters that occur in staged file names
Ord(c) ==
    IF c = "-" THEN 45
    ELSE IF c = "." THEN 46
    ELSE IF IsDigit(c) THEN 47 + (CHOOSE i \in 1..10 : Digits[i] = c)
    ELSE IF IsUpper(c) THEN 64 + (CHOOSE i \in 1..26 : UpperCs[i] = c)
    ELSE IF c = "_" THEN 95
    ELSE IF IsLower(c) THEN 96 + (CHOOSE i \in 1..26 : LowerCs[i] = c)
    ELSE 0

\* a < b on str values (lexicographic by code point)
RECURSIVE StrLess(_, _)
StrLess(a, b) ==
    IF b = <<>> THEN FALSE
    ELSE IF a = <<>> THEN TRUE
    ELSE IF Ord(Head(a)) # Ord(Head(b)) THEN Ord(Head(a)) < Ord(Head(b))
    ELSE StrLess(Tail(a), Tail(b))

\* int(s) for a string of decimal digits
RECURSIVE IntOf(_)
IntOf(s) ==
    IF s = <<>> THEN 0
    ELSE 10 * IntOf(SubSeq(s, 1, Len(s) - 1))
         + (CHOOSE i \in 1..10 : Digits[i] = s[Len(s)]) - 1

\* fnmatch.fnmatchcase(name, pat) for patterns made of literals, ? and *
RECURSIVE FnMatchCase(_, _)
FnMatchCase(name, pat) ==
    IF pat = <<>> THEN name = <<>>
    ELSE IF Head(pat) = "*"
         THEN \E k \in 0..Len(name) :
                  FnMatchCase(SubSeq(name, k + 1, Len(name)), Tail(pat))
    ELSE IF name = <<>> THEN FALSE
    ELSE /\ (Head(pat) = "?" \/ Head(pat) = Head(name))
         /\ FnMatchCase(Tail(name), Tail(pat))

(***************************************************************************)
(* Policy tables read from config.json, and the unit categories            *)
(***************************************************************************)
\* config['excluded_units']: used both as a set of lower-cased unit types
\* and as the glob patterns matched against unit identifiers
excluded_units ==
    << <<"a","m","b","u","l","a","n","c","e">>, <<"x","*">> >>

\* config['excluded_unit_types']
excluded_unit_types == { <<"m","e","d","i","c">> }

\* config['excluded_call_types']
excluded_call_types == { <<"d","r","i","l","l">> }

\* jurisdiction_company_mapping.get(jurisdiction, {}).get('agency_type', '')
jurisdiction_company_mapping(jurisdiction) ==
    CASE jurisdiction = "J1" -> "Fire"
      [] jurisdiction = "J2" -> "EMS"
      [] jurisdiction = "J3" -> "Police"
      [] OTHER -> ""

InList(x, list) == \E i \in 1..Len(list) : list[i] = x

FireTypes ==
    { <<"e","n","g","i","n","e">>,
      <<"r","e","s","c","u","e">>,
      <<"t","a","n","k","e","r">>,
      <<"q","u","i","n","t">>,
      <<"t","r","u","c","k">>,
      <<"l","o">>,
      <<"r","i","t">>,
      <<"f","i","r","e"," ","p","o","l","i","c","e">>,
      <<"t","r","a","f","f","i","c">>,
      <<"f","i","r","e"," ","t","o","n","e">>,
      <<"c","h","i","e","f">> }

EmsTypes ==
    { <<"m","i","c","u">>,
      <<"a","m","b","u","l","a","n","c","e">>,
      <<"i","n","t","e","r","m","e","d","i","a","t","e">>,
      <<"m","e","d","i","c">>,
      <<"e","m","s"," ","t","o","n","e">>,
      <<"e","m","s"," ","p","a","g","e">> }

PoliceType == <<"p","o","l","i","c","e"," ","o","f","f","i","c","e","r">>

(***************************************************************************)
(* Time                                                                    *)
(***************************************************************************)
\* minutes in a calendar day of the reference (Eastern) timezone
DayLen == 1440

\* datetime.now(eastern).strftime("%Y-%m-%d"), as the minute the day starts
Today(clock) == (clock \div DayLen) * DayLen

\* A timestamp text is absent (form "none"), a full "date time offset" text
\* (form "full", t the instant), a time-only text (form "time", t the minute
\* of the day), or some other text (form "bad").
parse_datetime(date_str, clock) ==
    IF date_str.form = "none" THEN NoTime
    ELSE IF date_str.form = "full" THEN date_str.t
    ELSE IF date_str.form = "time" THEN Today(clock) + date_str.t
    ELSE NoTime

\* convert_utc_to_est_time: the formatted instant; NoTime stands for ""
convert_utc_to_est_time(utc_dt) == IF utc_dt = NoTime THEN NoTime ELSE utc_dt

(***************************************************************************)
(* Record Extractor                                                        *)
(***************************************************************************)
\* One element of AssignedUnits, as extract_xml_data builds it
UnitDetail(unit, clock) ==
    [ unit_id      |-> unit.UnitNumber,
      unit_type    |-> Title(unit.Type),
      clear_time   |-> parse_datetime(unit.ClearDateTime, clock),
      arrive_time  |-> parse_datetime(unit.ArriveDateTime, clock),
      enroute_time |-> parse_datetime(unit.EnrouteDateTime, clock),
      jurisdiction |-> unit.Jurisdiction,
      is_primary   |-> unit.IsPrimary ]

\* the last unit flagged primary, whatever its type
RECURSIVE PrimaryOf(_)
PrimaryOf(units) ==
    IF units = <<>> THEN NoRecord
    ELSE IF units[Len(units)].is_primary THEN units[Len(units)]
    ELSE PrimaryOf(SubSeq(units, 1, Len(units) - 1))

\* findtext('AgencyContexts/AgencyContext/CallType'): the first CallType
RECURSIVE FirstCallType(_)
FirstCallType(contexts) ==
    IF contexts = <<>> THEN NoText
    ELSE IF Head(contexts).CallType # NoText THEN Head(contexts).CallType
    ELSE FirstCallType(Tail(contexts))

\* the tuple returned on the error paths has 9 elements
ExtractFailure ==
    [ n |-> 9, call_number |-> NoText, close_datetime |-> NULL,
      root |-> NoRecord, location |-> NULL, nature_of_call |-> NoText,
      unit_details |-> <<>>, primary_unit |-> NoRecord,
      latitude |-> NULL, longitude |-> NULL ]

\* extract_xml_data(file_path): xml is the content of the file.  n is the
\* length of the returned tuple.
extract_xml_data(xml, clock) ==
    IF xml.kind # "xml" THEN ExtractFailure
    ELSE IF \E i \in 1..Len(xml.AgencyContexts) :
                xml.AgencyContexts[i].AgencyType = NULL THEN ExtractFailure
    ELSE IF \E i \in 1..Len(xml.Units) : xml.Units[i].Type = NoText
         THEN ExtractFailure
    ELSE
    LET all == [i \in 1..Len(xml.Units) |-> UnitDetail(xml.Units[i], clock)]
        hasLatLon == /\ xml.FullAddress # NoRecord
                     /\ xml.FullAddress.lat # NULL
                     /\ xml.FullAddress.lon # NULL
    IN  [ n |-> 10,
          call_number |-> xml.CallNumber,
          close_datetime |-> xml.CloseDateTime,
          root |-> xml,
          location |-> IF xml.FullAddress = NoRecord THEN NULL
                       ELSE xml.FullAddress.key,
          nature_of_call |-> FirstCallType(xml.AgencyContexts),
          unit_details |->
              SelectSeq(all, LAMBDA u : ~InList(Lower(u.unit_type), excluded_units)),
          primary_unit |-> PrimaryOf(all),
          latitude |-> IF hasLatLon THEN xml.FullAddress.lat ELSE NULL,
          longitude |-> IF hasLatLon THEN xml.FullAddress.lon ELSE NULL ]

(***************************************************************************)
(* Unit Merge Engine                                                       *)
(***************************************************************************)
\* position of a key in an insertion-ordered dict of units, 0 when absent
UnitIndex(dict, unit_id) ==
    IF \E i \in 1..Len(dict) : dict[i].unit_id = unit_id
    THEN CHOOSE i \in 1..Len(dict) : dict[i].unit_id = unit_id
    ELSE 0

\* dict[unit['unit_id']] = unit
UnitPut(dict, unit) ==
    IF UnitIndex(dict, unit.unit_id) = 0 THEN Append(dict, unit)
    ELSE [dict EXCEPT ![UnitIndex(dict, unit.unit_id)] = unit]

\* {unit['unit_id']: unit for unit in existing_units}
RECURSIVE UnitsDict(_)
UnitsDict(units) ==
    IF units = <<>> THEN <<>>
    ELSE UnitPut(UnitsDict(SubSeq(units, 1, Len(units) - 1)), units[Len(units)])

\* the assignment without the comparison: any incoming value is taken
MergeTime_Overwrite(existing_time, new_time) ==
    IF new_time # NoTime THEN new_time ELSE existing_time

\* one of the three guarded assignments of merge_unit_details.  The two
\* operands are instants of one kind (both parsed from the full form, or
\* both from the time-only form), which is what the files and unit lists
\* drawn below contain; Python raises TypeError when an offset-aware
\* datetime is compared with a naive one.
MergeTime(existing_time, new_time) ==
    IF new_time # NoTime /\ (existing_time = NoTime \/ new_time > existing_time)
    THEN new_time
    ELSE existing_time

\* the third assignment guarded by the comparison of the first one (the
\* clear time compared with the existing arrive time)
MergeExisting_CopiedGuard(existing_unit, new_unit) ==
    [existing_unit EXCEPT
        !.arrive_time  = MergeTime(existing_unit.arrive_time, new_unit.arrive_time),
        !.enroute_time = MergeTime(existing_unit.enroute_time, new_unit.enroute_time),
        !.clear_time   =
            IF /\ new_unit.clear_time # NoTime
               /\ \/ existing_unit.arrive_time = NoTime
                  \/ new_unit.clear_time > existing_unit.arrive_time
            THEN new_unit.clear_time
            ELSE existing_unit.clear_time]

\* the branch for a unit identifier already in the dict
MergeExisting(existing_unit, new_unit) ==
    [existing_unit EXCEPT
        !.arrive_time  = MergeTime(existing_unit.arrive_time, new_unit.arrive_time),
        !.enroute_time = MergeTime(existing_unit.enroute_time, new_unit.enroute_time),
        !.clear_time   = MergeTime(existing_unit.clear_time, new_unit.clear_time)]

\* the branch without the test of the unit type
MergeAdd_NoExclusion(dict, new_unit) == Append(dict, new_unit)

\* the branch for a unit identifier not yet in the dict
MergeAdd(dict, new_unit) ==
    IF ~InList(Lower(new_unit.unit_type), excluded_units)
    THEN Append(dict, new_unit)
    ELSE dict

\* one iteration of the loop over new_units
MergeStep(dict, new_unit) ==
    IF UnitIndex(dict, new_unit.unit_id) # 0
    THEN [dict EXCEPT ![UnitIndex(dict, new_unit.unit_id)] =
              MergeExisting(dict[UnitIndex(dict, new_unit.unit_id)], new_unit)]
    ELSE MergeAdd(dict, new_unit)

RECURSIVE MergeLoop(_, _)
MergeLoop(dict, new_units) ==
    IF new_units = <<>> THEN dict
    ELSE MergeLoop(MergeStep(dict, Head(new_units)), Tail(new_units))

\* merge_unit_details(existing_units, new_units)
merge_unit_details(existing_units, new_units) ==
    MergeLoop(UnitsDict(existing_units), new_units)

\* The dict and the returned list hold the unit objects of the arguments,
\* not copies, and the three guarded assignments write into the object the
\* dict holds.
\* the object existing_units[k] is the value of the dict comprehension for
\* its identifier (the last object with that identifier)
InDict(existing_units, k) ==
    \A j \in (k + 1)..Len(existing_units) :
        existing_units[j].unit_id # existing_units[k].unit_id

\* the object new_units[k] is put into the dict by the else branch: its
\* identifier is not in the dict when the loop reaches it, and its type is
\* not excluded
Added(existing_units, new_units, k) ==
    /\ \A j \in 1..Len(existing_units) :
           existing_units[j].unit_id # new_units[k].unit_id
    /\ ~InList(Lower(new_units[k].unit_type), excluded_units)
    /\ \A j \in 1..(k - 1) :
           new_units[j].unit_id = new_units[k].unit_id
               => InList(Lower(new_units[j].unit_type), excluded_units)

\* the object that the returned list holds for the identifier of unit
Returned(existing_units, new_units, unit) ==
    merge_unit_details(existing_units, new_units)[
        UnitIndex(merge_unit_details(existing_units, new_units), unit.unit_id)]

\* the objects of the list existing_units when the call has returned
ExistingAfterMerge(existing_units, new_units) ==
    [k \in 1..Len(existing_units) |->
        IF InDict(existing_units, k)
        THEN Returned(existing_units, new_units, existing_units[k])
        ELSE existing_units[k]]

\* the objects of the list new_units when the call has returned
NewAfterMerge(existing_units, new_units) ==
    [k \in 1..Len(new_units) |->
        IF Added(existing_units, new_units, k)
        THEN Returned(existing_units, new_units, new_units[k])
        ELSE new_units[k]]

(***************************************************************************)
(* File names                                                              *)
(***************************************************************************)
RECURSIVE DigitPrefixLen(_)
DigitPrefixLen(s) ==
    IF s # <<>> /\ IsDigit(Head(s)) THEN 1 + DigitPrefixLen(Tail(s)) ELSE 0

Drop(s, k) == SubSeq(s, k + 1, Len(s))

StartsWith(s, prefix) ==
    Len(s) >= Len(prefix) /\ SubSeq(s, 1, Len(prefix)) = prefix

AllDigits(s) == s # <<>> /\ \A i \in 1..Len(s) : IsDigit(s[i])

DotXml == <<".","x","m","l">>

DotBackup == <<".","b","a","c","k","u","p">>

\* re.match(r'^(\d+)_(\d+)\.xml(?:-\d+\.backup)?$', name).groups(), or
\* NoRecord when the name does not match
MatchName(name) ==
    LET a  == DigitPrefixLen(name)
        r1 == Drop(name, a)
        r2 == Drop(r1, 1)
        b  == DigitPrefixLen(r2)
        r3 == Drop(r2, b)
        r4 == Drop(r3, 4)
        c  == DigitPrefixLen(Drop(r4, 1))
    IN  IF /\ a > 0
           /\ StartsWith(r1, <<"_">>)
           /\ b > 0
           /\ StartsWith(r3, DotXml)
           /\ \/ r4 = <<>>
              \/ /\ StartsWith(r4, <<"-">>)
                 /\ c > 0
                 /\ Drop(r4, 1 + c) = DotBackup
        THEN [call_number |-> SubSeq(name, 1, a), timestamp |-> SubSeq(r2, 1, b)]
        ELSE NoRecord

\* os.path.splitext(name)[0]
SplitExtRoot(name) ==
    IF \E i \in 1..Len(name) : name[i] = "."
    THEN LET last == CHOOSE i \in 1..Len(name) :
                        /\ name[i] = "."
                        /\ \A j \in (i+1)..Len(name) : name[j] # "."
         IN  SubSeq(name, 1, last - 1)
    ELSE name

\* s.split('_')[1] for a text with at least one underscore
SplitField1(s) ==
    LET first == CHOOSE i \in 1..Len(s) :
                     s[i] = "_" /\ \A j \in 1..(i-1) : s[j] # "_"
        rest  == Drop(s, first)
    IN  IF \E i \in 1..Len(rest) : rest[i] = "_"
        THEN SubSeq(rest, 1, (CHOOSE i \in 1..Len(rest) :
                        rest[i] = "_" /\ \A j \in 1..(i-1) : rest[j] # "_") - 1)
        ELSE rest

\* xml_files.sort(): insertion of one name into a sorted list
RECURSIVE SortedInsert(_, _)
SortedInsert(list, name) ==
    IF list = <<>> THEN <<name>>
    ELSE IF StrLess(name, Head(list)) THEN <<name>> \o list
    ELSE <<Head(list)>> \o SortedInsert(Tail(list), name)

\* the names of a directory, in sorted order
RECURSIVE SortedListing(_)
SortedListing(names) ==
    IF names = {} THEN <<>>
    ELSE LET n == CHOOSE n \in names : TRUE
         IN  SortedInsert(SortedListing(names \ {n}), n)

(***************************************************************************)
(* Shared Incident Registry: call_display_times, an insertion-ordered dict *)
(* kept as a sequence of [call_number, display_time] items                 *)
(***************************************************************************)
DictHas(dict, call_number) ==
    \E i \in 1..Len(dict) : dict[i].call_number = call_number

\* del call_display_times[call_number]
DictDel(dict, call_number) ==
    SelectSeq(dict, LAMBDA item : item.call_number # call_number)

\* call_display_times[call_number] = time, for a key not in the dict
DictAdd(dict, call_number, time) ==
    Append(dict, [call_number |-> call_number, display_time |-> time])

DictKeys(dict) == {dict[i].call_number : i \in 1..Len(dict)}

(***************************************************************************)
(* Classification & Filtering (the body of the try block, up to the        *)
(* last `continue`)                                                        *)
(***************************************************************************)
\* is_excluded_unit(unit_id, excluded_units)
is_excluded_unit(unit_id, patterns) ==
    \E i \in 1..Len(patterns) : FnMatchCase(Lower(unit_id), Lower(patterns[i]))

\* primary_units.get(call_number)
PrimaryUnitsGet(primary_units, call_number) ==
    IF call_number \in DOMAIN primary_units THEN primary_units[call_number]
    ELSE NULL

\* The verdict on one snapshot x of call x.call_number: "Keep", "Drop" with
\* the reason logged, or "Error" when the try block raises; primary_units
\* is the dict as the block leaves it.
Classify(x, primary_units) ==
    LET units == x.unit_details
        badUnitId == \E i \in 1..Len(units) : units[i].unit_id = NoText
        fire_units_dispatched ==
            \E i \in 1..Len(units) : Lower(units[i].unit_type) \in FireTypes
        has_excluded_unit ==
            \E i \in 1..Len(units) :
                is_excluded_unit(units[i].unit_id, excluded_units)
        primary_unit ==
            IF PrimaryOf(units) # NoRecord THEN PrimaryOf(units)
            ELSE x.primary_unit
        agency_type == jurisdiction_company_mapping(primary_unit.jurisdiction)
        pu == IF primary_unit # NoRecord
              THEN (x.call_number :> agency_type) @@ primary_units
              ELSE primary_units
        remembered == PrimaryUnitsGet(pu, x.call_number)
    IN  IF badUnitId
          THEN [verdict |-> "Error", reason |-> "unit_id", primary_units |-> primary_units]
        ELSE IF primary_unit # NoRecord /\ x.nature_of_call = NoText
          THEN [verdict |-> "Error", reason |-> "nature_of_call", primary_units |-> pu]
        ELSE IF /\ primary_unit # NoRecord
                /\ Lower(primary_unit.unit_type) \in excluded_unit_types
          THEN [verdict |-> "Drop", reason |-> "ExcludedPrimaryUnitType", primary_units |-> pu]
        ELSE IF has_excluded_unit
          THEN [verdict |-> "Drop", reason |-> "ExcludedUnitPresent", primary_units |-> pu]
        ELSE IF remembered = "EMS"
          THEN [verdict |-> "Drop", reason |-> "AgencyIsEMS", primary_units |-> pu]
        ELSE IF remembered = "Police" /\ ~fire_units_dispatched
          THEN [verdict |-> "Drop", reason |-> "AgencyIsPoliceNoFireUnits", primary_units |-> pu]
        ELSE IF x.nature_of_call = NoText
          THEN [verdict |-> "Error", reason |-> "nature_of_call", primary_units |-> pu]
        ELSE IF Lower(x.nature_of_call) \in excluded_call_types
          THEN [verdict |-> "Drop", reason |-> "ExcludedCallType", primary_units |-> pu]
        ELSE IF x.location = NULL
          THEN [verdict |-> "Error", reason |-> "location", primary_units |-> pu]
        ELSE [verdict |-> "Keep", reason |-> "", primary_units |-> pu]

(***************************************************************************)
(* Aggregation Pass                                                        *)
(***************************************************************************)
\* location_calls: an insertion-ordered dict kept as a sequence of
\* [key, info] items
GroupIndex(location_calls, location) ==
    IF \E i \in 1..Len(location_calls) : location_calls[i].key = location
    THEN CHOOSE i \in 1..Len(location_calls) : location_calls[i].key = location
    ELSE 0

CommaSpace == <<","," ">>

\* the branch with the unit list of the incoming snapshot assigned instead
\* of the merged one
GroupMerge_Replace(info, x) ==
    [info EXCEPT
        !.call_numbers =
            IF InList(x.call_number, @) THEN @ ELSE Append(@, x.call_number),
        !.nature_of_call =
            IF IsSubstring(x.nature_of_call, @) THEN @
            ELSE @ \o CommaSpace \o x.nature_of_call,
        !.unit_details = x.unit_details]

\* the branch `if location in location_calls`
GroupMerge(info, x) ==
    [info EXCEPT
        !.call_numbers =
            IF InList(x.call_number, @) THEN @ ELSE Append(@, x.call_number),
        !.nature_of_call =
            IF IsSubstring(x.nature_of_call, @) THEN @
            ELSE @ \o CommaSpace \o x.nature_of_call,
        !.unit_details = merge_unit_details(@, x.unit_details)]

\* the branch that seeds a new group
GroupNew(x, clock) ==
    [ call_numbers |-> <<x.call_number>>,
      location |-> <<x.location, x.latitude, x.longitude>>,
      create_date_time |->
          convert_utc_to_est_time(parse_datetime(x.root.CreateDateTime, clock)),
      nature_of_call |-> x.nature_of_call,
      unit_details |-> x.unit_details,
      latitude |-> x.latitude,
      longitude |-> x.longitude ]

\* the registry entry written on every keep, as update_call_display_time
\* writes it, instead of only for a call that has none
Keep_AlwaysStamp(acc, x, clock) ==
    LET g == GroupIndex(acc.location_calls, x.location)
    IN  [acc EXCEPT
            !.location_calls =
                IF g # 0 THEN [@ EXCEPT ![g].info = GroupMerge(@, x)]
                ELSE Append(@, [key |-> x.location, info |-> GroupNew(x, clock)]),
            !.call_display_times =
                IF DictHas(@, x.call_number)
                THEN [i \in 1..Len(@) |->
                         IF @[i].call_number = x.call_number
                         THEN [@[i] EXCEPT !.display_time = clock]
                         ELSE @[i]]
                ELSE DictAdd(@, x.call_number, clock)]

\* the statements after the last `continue` of the try block
Keep(acc, x, clock) ==
    LET g == GroupIndex(acc.location_calls, x.location)
    IN  [acc EXCEPT
            !.location_calls =
                IF g # 0 THEN [@ EXCEPT ![g].info = GroupMerge(@, x)]
                ELSE Append(@, [key |-> x.location, info |-> GroupNew(x, clock)]),
            !.call_display_times =
                IF DictHas(@, x.call_number) THEN @
                ELSE DictAdd(@, x.call_number, clock)]

\* what the try block does with the verdict d on the file
Decide(acc, xml_file, x, d, clock) ==
    IF d.verdict = "Drop"
      THEN [acc EXCEPT !.files_to_delete = Append(@, xml_file),
                       !.primary_units = d.primary_units,
                       !.decisions = Append(@, [file |-> xml_file,
                                                call_number |-> x.call_number,
                                                verdict |-> d.verdict,
                                                reason |-> d.reason])]
    ELSE IF d.verdict = "Error"
      THEN [acc EXCEPT !.primary_units = d.primary_units,
                       !.decisions = Append(@, [file |-> xml_file,
                                                call_number |-> x.call_number,
                                                verdict |-> d.verdict,
                                                reason |-> d.reason])]
    ELSE Keep([acc EXCEPT !.primary_units = d.primary_units,
                          !.decisions = Append(@, [file |-> xml_file,
                                                   call_number |-> x.call_number,
                                                   verdict |-> d.verdict,
                                                   reason |-> d.reason])],
              x, clock)

\* the try block for one file
TryBlock(acc, xml_file, x, clock) ==
    Decide(acc, xml_file, x, Classify(x, acc.primary_units), clock)

\* the superseding bookkeeping (lines 367-377) followed by the try block
Supersede(acc, xml_file, x, current_file_number, previous_file_number, clock) ==
    IF /\ x.call_number \in acc.processed_call_numbers
       /\ ~(current_file_number > previous_file_number)
      THEN acc
    ELSE TryBlock(
             [acc EXCEPT
                 !.files_to_delete =
                     IF x.call_number \in acc.processed_call_numbers
                     THEN Append(@, acc.latest_call_files[x.call_number])
                     ELSE @,
                 !.processed_call_numbers = @ \cup {x.call_number},
                 !.latest_call_files = (x.call_number :> xml_file) @@ @],
             xml_file, x, clock)

\* latest_call_files.get(call_number, '0_0.xml')
LatestFile(latest_call_files, call_number) ==
    IF call_number \in DOMAIN latest_call_files
    THEN latest_call_files[call_number]
    ELSE <<"0","_","0",".","x","m","l">>

\* the iteration with the closed test made on the file's own CloseDateTime
\* instead of the set collected by the first loop
Iteration_OwnClose(acc, xml_file, match, x, clock) ==
    IF match = NoRecord THEN acc
    ELSE IF /\ x.call_number # NoText /\ x.call_number # <<>>
            /\ x.close_datetime # NULL
      THEN [acc EXCEPT
               !.files_to_delete = Append(@, xml_file),
               !.call_display_times = DictDel(@, x.call_number)]
    ELSE Supersede(acc, xml_file, x, IntOf(match.timestamp),
                   IntOf(SplitField1(SplitExtRoot(
                       LatestFile(acc.latest_call_files, x.call_number)))),
                   clock)

\* one iteration of the second loop, on a file whose name matched as match
\* and whose content was extracted as x
Iteration(acc, xml_file, match, x, clock) ==
    IF match = NoRecord THEN acc
    ELSE IF /\ x.call_number # NoText /\ x.call_number # <<>>
            /\ x.call_number \in acc.closed_call_numbers
      THEN [acc EXCEPT
               !.files_to_delete = Append(@, xml_file),
               !.call_display_times = DictDel(@, x.call_number)]
    ELSE Supersede(acc, xml_file, x, IntOf(match.timestamp),
                   IntOf(SplitField1(SplitExtRoot(
                       LatestFile(acc.latest_call_files, x.call_number)))),
                   clock)

\* one iteration of the second loop
ProcessFile(acc, xml_file, fs, clock) ==
    Iteration(acc, xml_file, MatchName(xml_file),
              extract_xml_data(fs[xml_file], clock), clock)

RECURSIVE SecondLoop(_, _, _, _)
SecondLoop(acc, xml_files, fs, clock) ==
    IF xml_files = <<>> THEN acc
    ELSE SecondLoop(ProcessFile(acc, Head(xml_files), fs, clock),
                    Tail(xml_files), fs, clock)

\* the first loop: the call numbers that carry a CloseDateTime
ClosedCallNumbers(xml_files, fs, clock) ==
    { extract_xml_data(fs[xml_files[i]], clock).call_number :
        i \in { j \in 1..Len(xml_files) :
                  LET x == extract_xml_data(fs[xml_files[j]], clock)
                  IN  /\ x.call_number # NoText
                      /\ x.call_number # <<>>
                      /\ x.close_datetime # NULL } }

\* unpacking a 9-tuple into 10 names raises ValueError
UnpackRaises(xml_files, fs, clock) ==
    \E i \in 1..Len(xml_files) : extract_xml_data(fs[xml_files[i]], clock).n # 10

\* the filter without its test of the clear timestamp
DisplayedUnits_TypeOnly(unit_details) ==
    SelectSeq(unit_details,
              LAMBDA unit : ~InList(Lower(unit.unit_type), excluded_units))

\* the filter applied to every group after the loops
DisplayedUnits(unit_details) ==
    SelectSeq(unit_details,
              LAMBDA unit : /\ unit.clear_time = NoTime
                            /\ ~InList(Lower(unit.unit_type), excluded_units))

\* sorted(..., key=lambda x: int(x['call_numbers'][0]), reverse=True):
\* stable, descending
RECURSIVE SortCalls(_)
SortCalls(infos) ==
    IF infos = <<>> THEN <<>>
    ELSE LET last == infos[Len(infos)]
             k    == IntOf(last.call_numbers[1])
             rest == SortCalls(SubSeq(infos, 1, Len(infos) - 1))
             pos  == Cardinality({i \in 1..Len(rest) :
                                     IntOf(rest[i].call_numbers[1]) >= k})
         IN  SubSeq(rest, 1, pos) \o <<last>> \o SubSeq(rest, pos + 1, Len(rest))

\* ', '.join(call_numbers)
RECURSIVE JoinCallNumbers(_)
JoinCallNumbers(call_numbers) ==
    IF Len(call_numbers) = 1 THEN call_numbers[1]
    ELSE call_numbers[1] \o CommaSpace \o JoinCallNumbers(Tail(call_numbers))

\* call_info['call_number'] = ', '.join(call_info['call_numbers']), for
\* every group
WithCallNumber(calls) ==
    [i \in 1..Len(calls) |->
        [ call_number |-> JoinCallNumbers(calls[i].call_numbers),
          call_numbers |-> calls[i].call_numbers,
          location |-> calls[i].location,
          create_date_time |-> calls[i].create_date_time,
          nature_of_call |-> calls[i].nature_of_call,
          unit_details |-> calls[i].unit_details,
          latitude |-> calls[i].latitude,
          longitude |-> calls[i].longitude ]]

\* the return without the sort: the groups in the order of their creation
ReturnCalls_Unsorted(acc, infos) ==
    IF \E i \in 1..Len(infos) :
          \/ ~AllDigits(infos[i].call_numbers[1])
          \/ \E j \in 1..Len(infos[i].call_numbers) :
                 infos[i].call_numbers[j] = NoText
    THEN [ status |-> "raised", calls |-> <<>>, files_to_delete |-> <<>>,
           call_display_times |-> acc.call_display_times,
           decisions |-> acc.decisions ]
    ELSE [ status |-> "returned",
           calls |-> WithCallNumber(infos),
           files_to_delete |-> acc.files_to_delete,
           call_display_times |-> acc.call_display_times,
           decisions |-> acc.decisions ]

\* lines 481-488: the sort, the join and the return
ReturnCalls(acc, infos) ==
    IF \E i \in 1..Len(infos) :
          \/ ~AllDigits(infos[i].call_numbers[1])
          \/ \E j \in 1..Len(infos[i].call_numbers) :
                 infos[i].call_numbers[j] = NoText
    THEN [ status |-> "raised", calls |-> <<>>, files_to_delete |-> <<>>,
           call_display_times |-> acc.call_display_times,
           decisions |-> acc.decisions ]
    ELSE [ status |-> "returned",
           calls |-> WithCallNumber(SortCalls(infos)),
           files_to_delete |-> acc.files_to_delete,
           call_display_times |-> acc.call_display_times,
           decisions |-> acc.decisions ]

\* lines 478-479 on what the two loops left
AfterLoops(acc) ==
    ReturnCalls(acc,
                [i \in 1..Len(acc.location_calls) |->
                    [acc.location_calls[i].info EXCEPT
                        !.unit_details = DisplayedUnits(@)]])

\* process_xml_files(xml_files), with the file contents fs, the registry and
\* the clock it reads; status "raised" when an exception leaves the function
process_xml_files(xml_files, fs, registry, clock) ==
    IF UnpackRaises(xml_files, fs, clock)
    THEN [ status |-> "raised", calls |-> <<>>, files_to_delete |-> <<>>,
           call_display_times |-> registry, decisions |-> <<>> ]
    ELSE AfterLoops(SecondLoop(
                   [ location_calls |-> <<>>,
                     processed_call_numbers |-> {},
                     latest_call_files |-> <<>>,
                     files_to_delete |-> <<>>,
                     closed_call_numbers |-> ClosedCallNumbers(xml_files, fs, clock),
                     primary_units |-> <<>>,
                     call_display_times |-> registry,
                     decisions |-> <<>> ],
                   xml_files, fs, clock))

(***************************************************************************)
(* State                                                                   *)
(***************************************************************************)
VARIABLES
    disk,                \* content of every file, by name
    source,              \* names in config['source_directory']
    staged,              \* names in config['xml_directory']
    call_display_times,  \* the Shared Incident Registry
    now,                 \* datetime.now(eastern), in minutes
    call_listbox,        \* call numbers listed in the control panel
    op,                  \* the operation that ran last
    result,              \* what the pass of the last operation returned
    existing_units,      \* arguments and result of the last
    new_units,           \*   merge_unit_details call of the merge harness
    merged_units,
    existing_list,       \* the two argument lists as their caller finds
    new_list,            \*   them: the objects that the arguments named
    data_lock,           \* the thread that holds data_lock, or "free"
    stop_event,          \* whether stop_event is set
    pc,                  \* where each thread is in its code
    listing,             \* the directory listing of the thread in data_lock
    pending,             \* source files the intake tick has still to visit
    tick_time,           \* the clock the retention tick read
    unnamed              \* loop threads whose global name was bound again

vars == << disk, source, staged, call_display_times, now, call_listbox, op,
           result, existing_units, new_units, merged_units,
           existing_list, new_list,
           data_lock, stop_event, pc, listing, pending, tick_time,
           unnamed >>

mergeVars == << existing_units, new_units, merged_units, existing_list,
               new_list >>

threadVars == << data_lock, stop_event, pc, listing, pending, tick_time,
                unnamed >>

\* the threads the program starts (start_monitoring and __main__); "main"
\* runs the control panel
Loops == {"monitor_thread", "file_checking_thread", "cleanup_thread"}

Threads == Loops \cup {"flask_thread", "main"}

\* the order in which start_monitoring starts the loops
LoopOrder == << "monitor_thread", "file_checking_thread", "cleanup_thread" >>

\* the threads that the names of LoopOrder refer to before start_monitoring
\* binds them again, with their places in the code given by at
Rebound(at) ==
    SelectSeq([i \in 1..Len(LoopOrder) |->
                  [target |-> LoopOrder[i], at |-> at[LoopOrder[i]]]],
              LAMBDA th : th.at # "unstarted")

\* the program run as a script, with the control panel open: every loop
\* that the globals name is in its first stop_event test or wait, and so are
\* the loops of the module-level start_monitoring(); the web server and the
\* control panel are idle, nobody holds data_lock
ThreadsStarted ==
    /\ unnamed = Rebound([t \in Loops |-> "wait"])
    /\ data_lock = "free"
    /\ stop_event = FALSE
    /\ pc = [t \in Threads |-> IF t \in Loops THEN "wait" ELSE "idle"]
    /\ listing = <<>>
    /\ pending = {}
    /\ tick_time = NoTime

(***************************************************************************)
(* The export files of the pipeline model                                  *)
(***************************************************************************)
NoStamp == [form |-> "none"]

Full(t) == [form |-> "full", t |-> t]

TimeOnly(t) == [form |-> "time", t |-> t]

Unit(number, type, enroute, arrive, clear, jurisdiction, primary) ==
    [ UnitNumber |-> number, Type |-> type, EnrouteDateTime |-> enroute,
      ArriveDateTime |-> arrive, ClearDateTime |-> clear,
      Jurisdiction |-> jurisdiction, IsPrimary |-> primary ]

Xml(call, close, address, calltype, units, create) ==
    [ kind |-> "xml", CallNumber |-> call, CloseDateTime |-> close,
      FullAddress |-> address,
      AgencyContexts |-> << [AgencyType |-> "Fire", CallType |-> calltype] >>,
      Units |-> units, CreateDateTime |-> create ]

EmptyFile ==
    [ kind |-> "empty", CallNumber |-> NoText, CloseDateTime |-> NULL,
      FullAddress |-> NoRecord, AgencyContexts |-> <<>>, Units |-> <<>>,
      CreateDateTime |-> NoStamp ]

Address(key) == [key |-> key, lat |-> NULL, lon |-> NULL]

AddressLatLon(key, lat, lon) == [key |-> key, lat |-> lat, lon |-> lon]

ENGINE == <<"E","N","G","I","N","E">>

MEDIC == <<"M","E","D","I","C">>

FIRE == <<"F","I","R","E">>

MVA == <<"M","V","A">>

F11 == <<"1","_","1",".","x","m","l">>

F12 == <<"1","_","2",".","x","m","l">>

F13 == <<"1","_","3",".","x","m","l">>

F21 == <<"2","_","1",".","x","m","l">>

F31 == <<"3","_","1",".","x","m","l">>

FNotes == <<"n",".","x","m","l">>

Files == {F11, F12, F13, F21, F31, FNotes}

X11 ==
    Xml(<<"1">>, NULL, Address("A"), FIRE,
        << Unit(<<"E","1">>, ENGINE, Full(10), NoStamp, NoStamp, "J1", TRUE) >>,
        Full(5))

\* call 1 at location A in two open updates (the second with a time-only
\* stamp) and a closing one, and an empty file
DiskUpdates ==
    (F11 :> X11)
    @@ (F12 :> Xml(<<"1">>, NULL, Address("A"), FIRE,
                << Unit(<<"E","2">>, ENGINE, TimeOnly(600), NoStamp, NoStamp, "J1", TRUE) >>,
                Full(5)))
    @@ (F13 :> Xml(<<"1">>, "closed", Address("A"), FIRE,
                << Unit(<<"M","1">>, MEDIC, Full(20), NoStamp, Full(30), "J2", TRUE) >>,
                Full(5)))
    @@ (F31 :> EmptyFile)

\* call 1 and call 2 at the same location, and a file with a free-form name
\* that closes call 1
DiskShared ==
    (F11 :> X11)
    @@ (F21 :> Xml(<<"2">>, NULL, AddressLatLon("A", "39.1", "-77.2"), MVA,
                << Unit(<<"E","1">>, ENGINE, Full(10), Full(25), NoStamp, "J1", TRUE) >>,
                Full(8)))
    @@ (FNotes :> Xml(<<"1">>, "closed", Address("A"), FIRE, <<>>, Full(5)))

Disks == {DiskUpdates, DiskShared}

(***************************************************************************)
(* Bounds of the pipeline model                                            *)
(***************************************************************************)
\* the clock starts late on a day, so that one step stays within the day and
\* the other reaches the next day
StartTime == 1079

MaxNow == 1800

TickSteps == {360, 361}

(***************************************************************************)
(* Operations                                                              *)
(***************************************************************************)
\* result records the list a pass was given, the clock it read (at), what
\* it returned, and, when the pass before it (with nothing but time passing
\* in between) ran on the same list, the clock that pass read (again)
NoResult ==
    [ status |-> "none", xml_files |-> <<>>, calls |-> <<>>,
      files_to_delete |-> <<>>, decisions |-> <<>>, at |-> 0,
      again |-> NoTime ]

Init ==
    /\ disk \in Disks
    /\ source = {}
    /\ staged = {}
    /\ call_display_times = <<>>
    /\ now = StartTime
    /\ call_listbox = {}
    /\ op = "start"
    /\ result = NoResult
    /\ existing_units = <<>>
    /\ new_units = <<>>
    /\ merged_units = <<>>
    /\ existing_list = <<>>
    /\ new_list = <<>>
    /\ ThreadsStarted

Range(seq) == {seq[i] : i \in 1..Len(seq)}

\* [f for f in os.listdir(config['xml_directory']) if f.endswith('.xml')]
XmlNames(names) == {f \in names : EndsWith(f, DotXml)}

PassResult(r, xml_files) ==
    [ status |-> r.status, xml_files |-> xml_files, calls |-> r.calls,
      files_to_delete |-> r.files_to_delete, decisions |-> r.decisions,
      at |-> now,
      again |-> IF result.status # "none" /\ result.xml_files = xml_files
                THEN result.at ELSE NoTime ]

\* the dispatch system writes an export file into the source directory
Arrive(f) ==
    /\ f \in DOMAIN disk
    /\ f \notin source
    /\ source' = source \cup {f}
    /\ op' = "Arrive"
    /\ result' = NoResult
    /\ UNCHANGED << disk, staged, call_display_times, now, call_listbox,
                    mergeVars, threadVars >>

\* time passes
Tick(d) ==
    /\ now + d <= MaxNow
    /\ now' = now + d
    /\ op' = "Tick"
    /\ UNCHANGED << disk, source, staged, call_display_times, call_listbox,
                    result, mergeVars, threadVars >>

\* the iteration with shutil.move in the place of shutil.copy2
monitor_and_transfer_files_Move ==
    /\ staged' = staged \cup XmlNames(source)
    /\ source' = source \ XmlNames(source)
    /\ op' = "monitor_and_transfer_files"
    /\ result' = NoResult
    /\ UNCHANGED << disk, call_display_times, now, call_listbox,
                    mergeVars, threadVars >>

\* one iteration of monitor_and_transfer_files
monitor_and_transfer_files ==
    /\ staged' = staged \cup XmlNames(source)
    /\ op' = "monitor_and_transfer_files"
    /\ result' = NoResult
    /\ UNCHANGED << disk, source, call_display_times, now, call_listbox,
                    mergeVars, threadVars >>

\* delete_files(files_to_delete)
delete_files(names, files_to_delete) == names \ Range(files_to_delete)

\* lines 171-178 with r what process_xml_files did on xml_files
AfterPass(r, xml_files) ==
    /\ call_display_times' = r.call_display_times
    /\ staged' = IF r.status = "returned"
                 THEN delete_files(staged, r.files_to_delete)
                 ELSE staged
    /\ result' = PassResult(r, xml_files)

\* one iteration of check_for_new_files; an exception raised by the pass is
\* caught by the handler of the loop body and the deletions are not reached
check_for_new_files ==
    /\ AfterPass(process_xml_files(SortedListing(XmlNames(staged)), disk,
                                   call_display_times, now),
                 SortedListing(XmlNames(staged)))
    /\ op' = "check_for_new_files"
    /\ UNCHANGED << disk, source, now, call_listbox, mergeVars, threadVars >>

\* lines 952-957 with r what process_xml_files did on xml_files
Refill(r, xml_files) ==
    /\ call_display_times' = r.call_display_times
    /\ result' = PassResult(r, xml_files)
    /\ call_listbox' =
           IF r.status = "returned"
           THEN UNION {Range(r.calls[i].call_numbers) : i \in 1..Len(r.calls)}
           ELSE call_listbox

\* the listing and the pass of XMLProcessorGUI.refresh_calls over the
\* directory content names; the list box is refilled when the pass returns
RefreshPass(names) ==
    Refill(process_xml_files(SortedListing(XmlNames(names)), disk,
                             call_display_times, now),
           SortedListing(XmlNames(names)))

\* XMLProcessorGUI.refresh_calls (also the periodic auto_refresh)
refresh_calls ==
    /\ RefreshPass(staged)
    /\ op' = "refresh_calls"
    /\ UNCHANGED << disk, source, staged, now, mergeVars, threadVars >>

\* XMLProcessorGUI.delete_selected_call on a file listed for a call of the
\* list box (show_call_files lists the files whose CallNumber is that call)
delete_selected_call(f) ==
    /\ f \in XmlNames(staged)
    /\ extract_xml_data(disk[f], now).n = 10
    /\ extract_xml_data(disk[f], now).call_number \in call_listbox
    /\ staged' = staged \ {f}
    /\ RefreshPass(staged \ {f})
    /\ op' = "delete_selected_call"
    /\ UNCHANGED << disk, source, now, mergeVars, threadVars >>

\* the comparison off by one: an entry expires at 360 minutes
ToRemove_AtLimit(registry, current_time) ==
    SelectSeq(registry,
              LAMBDA item : (current_time - item.display_time) >= 360)

\* the calls cleanup_old_calls collects in to_remove, in dict order
ToRemove(registry, current_time) ==
    SelectSeq(registry,
              LAMBDA item : (current_time - item.display_time) > 360)

\* the staged files whose parsed call number is call_number
FilesOfCall(names, call_number, clock) ==
    {f \in XmlNames(names) :
        extract_xml_data(disk[f], clock).call_number = call_number}

\* lines 306-321 with the clock read at line 303.  When a staged file makes
\* extract_xml_data return its 9-tuple, the unpacking raises during the scan
\* for the first expired call; os.listdir fixes no order, so any of that
\* call's files may have been removed before the scan reached the bad file.
Sweep(clock) ==
    LET to_remove == ToRemove(call_display_times, clock)
        bad == \E f \in XmlNames(staged) : extract_xml_data(disk[f], clock).n # 10
        expired == {to_remove[i].call_number : i \in 1..Len(to_remove)}
    IN  IF to_remove = <<>>
           THEN UNCHANGED << call_display_times, staged >>
           ELSE IF bad
           THEN /\ call_display_times' =
                       DictDel(call_display_times, to_remove[1].call_number)
                /\ \E removed \in
                       SUBSET FilesOfCall(staged, to_remove[1].call_number, clock) :
                       staged' = staged \ removed
           ELSE /\ call_display_times' =
                       SelectSeq(call_display_times,
                                 LAMBDA item : item.call_number \notin expired)
                /\ staged' =
                       {f \in staged :
                           \/ ~EndsWith(f, DotXml)
                           \/ extract_xml_data(disk[f], clock).call_number \notin expired}

\* the scan of the sweep raises: a call has expired and a staged file makes
\* extract_xml_data return its 9-tuple
SweepRaises(clock) ==
    /\ ToRemove(call_display_times, clock) # <<>>
    /\ \E f \in XmlNames(staged) : extract_xml_data(disk[f], clock).n # 10

\* one iteration of cleanup_old_calls
cleanup_old_calls ==
    /\ op' = "cleanup_old_calls"
    /\ result' = NoResult
    /\ Sweep(now)
    /\ UNCHANGED << disk, source, now, call_listbox, mergeVars, threadVars >>

Next ==
    \/ \E f \in Files : Arrive(f)
    \/ \E d \in TickSteps : Tick(d)
    \/ monitor_and_transfer_files
    \/ check_for_new_files
    \/ refresh_calls
    \/ \E f \in Files : delete_selected_call(f)
    \/ cleanup_old_calls

Spec == Init /\ [][Next]_vars

(***************************************************************************)
(* Unit Merge Engine on its own: merge_unit_details applied to argument    *)
(* lists drawn from bounded sets.  In each list a unit identifier occurs   *)
(* once (the lists are keyed by unit identifier).                          *)
(***************************************************************************)
MaxTime == 2

MaxUnits == 2

Times == {NoTime} \cup (1..MaxTime)

U1 == <<"U","1">>

U2 == <<"U","2">>

U3 == <<"U","3">>

UnitState(id, type, enroute, arrive, clear) ==
    [ unit_id |-> id, unit_type |-> type, clear_time |-> clear,
      arrive_time |-> arrive, enroute_time |-> enroute,
      jurisdiction |-> "J1", is_primary |-> FALSE ]

Engine == <<"E","n","g","i","n","e">>

Ambulance == <<"A","m","b","u","l","a","n","c","e">>

\* every combination of the three timestamps, for one unit
TimedUnits ==
    {UnitState(U1, Engine, e, a, c) : e \in Times, a \in Times, c \in Times}

\* units of either kind of type in an earlier and a later version
ListedUnits ==
    {UnitState(id, type, v[1], v[2], v[3]) :
        id \in {U1, U2, U3}, type \in {Engine, Ambulance},
        v \in {<<1, NoTime, NoTime>>, <<MaxTime, 1, NoTime>>}}

UniqueIds(list) ==
    \A i, j \in 1..Len(list) : list[i].unit_id = list[j].unit_id => i = j

UnitLists ==
    UNION {{list \in [1..n -> ListedUnits] : UniqueIds(list)} : n \in 0..MaxUnits}

MergeInit ==
    /\ \/ /\ existing_units \in {<<u>> : u \in TimedUnits}
          /\ new_units \in {<<u>> : u \in TimedUnits}
       \/ /\ existing_units \in UnitLists
          /\ new_units \in UnitLists
    /\ merged_units = <<>>
    /\ existing_list = existing_units
    /\ new_list = new_units
    /\ ThreadsStarted
    /\ op = "start"
    /\ disk = <<>>
    /\ source = {}
    /\ staged = {}
    /\ call_display_times = <<>>
    /\ now = StartTime
    /\ call_listbox = {}
    /\ result = NoResult

\* the call merged = merge_unit_details(existing, incoming)
Merge ==
    /\ op = "start"
    /\ merged_units' = merge_unit_details(existing_units, new_units)
    /\ existing_list' = ExistingAfterMerge(existing_units, new_units)
    /\ new_list' = NewAfterMerge(existing_units, new_units)
    /\ op' = "merge_unit_details"
    /\ UNCHANGED << disk, source, staged, call_display_times, now,
                    call_listbox, result, existing_units, new_units,
                    threadVars >>

MergeNext == Merge

MergeSpec == MergeInit /\ [][MergeNext]_vars

(***************************************************************************)
(* Classification on its own: an Aggregation Pass over one or two staged   *)
(* files of call 1 whose units and call type are drawn from bounded sets   *)
(***************************************************************************)
MaxClassUnits == 2

POLICE == <<"P","O","L","I","C","E"," ","O","F","F","I","C","E","R">>

DRILL == <<"D","R","I","L","L">>

\* primary units of every type, identifier kind and agency, and units that
\* are not primary (their jurisdiction is not read)
ClassUnits ==
    {Unit(id, type, Full(1), NoStamp, NoStamp, j, TRUE) :
        id \in {U1, <<"X","9">>}, type \in {ENGINE, POLICE, MEDIC},
        j \in {"J1", "J2", "J3"}}
    \cup
    {Unit(p[1], p[2], Full(1), NoStamp, NoStamp, "J1", FALSE) :
        p \in {<<U1, ENGINE>>, <<<<"X","9">>, ENGINE>>, <<U1, POLICE>>,
                <<U1, MEDIC>>}}

\* a first unit of any kind, followed by units that are not primary
ClassUnitLists ==
    UNION {{list \in [1..n -> ClassUnits] :
                \A i \in 2..n : ~list[i].IsPrimary} : n \in 0..MaxClassUnits}

ClassFirst ==
    {Xml(<<"1">>, NULL, Address("A"), calltype, units, Full(5)) :
        calltype \in {FIRE, DRILL, NoText}, units \in ClassUnitLists}

\* a later update of the call: without units, with one more engine, or
\* closing the call
ClassSecond ==
    {Xml(<<"1">>, NULL, Address("A"), FIRE, units, Full(5)) :
        units \in {<<>>,
                   << Unit(U2, ENGINE, Full(2), NoStamp, NoStamp, "J1", FALSE) >>}}
    \cup {Xml(<<"1">>, "closed", Address("A"), FIRE, <<>>, Full(5))}

ClassifyInit ==
    /\ \/ \E c1 \in ClassFirst : disk = (F11 :> c1)
       \/ \E c1 \in ClassFirst, c2 \in ClassSecond :
              disk = (F11 :> c1) @@ (F12 :> c2)
    /\ source = DOMAIN disk
    /\ staged = DOMAIN disk
    /\ call_display_times = <<>>
    /\ now = StartTime
    /\ call_listbox = {}
    /\ op = "start"
    /\ result = NoResult
    /\ existing_units = <<>>
    /\ new_units = <<>>
    /\ merged_units = <<>>
    /\ existing_list = <<>>
    /\ new_list = <<>>
    /\ ThreadsStarted

ClassifyNext ==
    \/ check_for_new_files
    \/ refresh_calls

ClassifySpec == ClassifyInit /\ [][ClassifyNext]_vars

(***************************************************************************)
(* Grouping on its own: an Aggregation Pass over two staged files without  *)
(* a primary unit (both pass the filters), of one call or of two, at one   *)
(* location or at two, whose unit lists are drawn from bounded sets        *)
(***************************************************************************)
F110 == <<"1","_","1","0",".","x","m","l">>

F101 == <<"1","0","_","1",".","x","m","l">>

\* unit U1 en route, arrived or cleared; unit U2, an engine or an ambulance,
\* en route
GroupUnits ==
    {Unit(U1, ENGINE, v[1], v[2], v[3], "J1", FALSE) :
        v \in {<<Full(1), NoStamp, NoStamp>>, <<Full(2), Full(3), NoStamp>>,
               <<Full(2), Full(3), Full(4)>>}}
    \cup
    {Unit(U2, type, Full(1), NoStamp, NoStamp, "J1", FALSE) :
        type \in {ENGINE, Ambulance}}

\* the AssignedUnits of a file: each unit at most once
GroupUnitLists ==
    {<<>>} \cup {<<u>> : u \in GroupUnits}
    \cup {list \in [1..2 -> GroupUnits] :
              list[1].UnitNumber # list[2].UnitNumber}

\* the names, call numbers and second location of the two files: two
\* updates of a call, two calls, two updates whose names sort against
\* their sequence numbers, or two calls whose numbers sort as numbers
\* against their order as texts
GroupPairs ==
    { <<F11, <<"1">>, F12, <<"1">>, "A">>, <<F11, <<"1">>, F12, <<"1">>, "B">>,
      <<F11, <<"1">>, F21, <<"2">>, "A">>, <<F11, <<"1">>, F21, <<"2">>, "B">>,
      <<F110, <<"1">>, F12, <<"1">>, "A">>,
      <<F101, <<"1","0">>, F21, <<"2">>, "B">> }

GroupInit ==
    /\ \E p \in GroupPairs,
          units1 \in GroupUnitLists, units2 \in GroupUnitLists :
           disk = (p[1] :> Xml(p[2], NULL, Address("A"), FIRE, units1, Full(5)))
                  @@ (p[3] :> Xml(p[4], NULL, Address(p[5]), MVA, units2, Full(8)))
    /\ source = DOMAIN disk
    /\ staged = DOMAIN disk
    /\ call_display_times = <<>>
    /\ now = StartTime
    /\ call_listbox = {}
    /\ op = "start"
    /\ result = NoResult
    /\ existing_units = <<>>
    /\ new_units = <<>>
    /\ merged_units = <<>>
    /\ existing_list = <<>>
    /\ new_list = <<>>
    /\ ThreadsStarted

GroupNext ==
    \/ check_for_new_files
    \/ refresh_calls

GroupSpec == GroupInit /\ [][GroupNext]_vars

(***************************************************************************)
(* The threads: the three loops of start_monitoring, one web request at a  *)
(* time in the Flask thread, and the control panel in the main thread,     *)
(* interleaved at the points where data_lock is taken and released.  The   *)
(* source directory holds a file of call 1 and the file that closes it.    *)
(***************************************************************************)
DiskThreads ==
    (F11 :> X11)
    @@ (F12 :> Xml(<<"1">>, "closed", Address("A"), FIRE, <<>>, Full(5)))

ThreadInit ==
    /\ disk = DiskThreads
    /\ source = DOMAIN disk
    /\ staged = {}
    /\ call_display_times = <<>>
    /\ now = StartTime
    /\ call_listbox = {}
    /\ op = "start"
    /\ result = NoResult
    /\ existing_units = <<>>
    /\ new_units = <<>>
    /\ merged_units = <<>>
    /\ existing_list = <<>>
    /\ new_list = <<>>
    /\ ThreadsStarted

\* what a pass finds under the names of its listing: for a file removed
\* since the listing os.path.getsize raises, and extract_xml_data answers
\* as it does for an empty file
StagedContent ==
    [f \in DOMAIN disk |-> IF f \in staged THEN disk[f] ELSE EmptyFile]

\* os.listdir fixes no order: the listings a route that does not sort may get
Listings(names) ==
    {l \in [1..Cardinality(names) -> names] : Range(l) = names}

\* a lock that does not exclude
Acquire_NoWait(t) == TRUE

\* "with data_lock:" can be entered by thread t
Acquire(t) == data_lock = "free"

Goto(t, label) == pc' = [pc EXCEPT ![t] = label]

\* "while not stop_event.is_set()", at the start of the loop and after
\* stop_event.wait(...)
LoopTest(t) ==
    /\ pc[t] = "wait"
    /\ Goto(t, IF stop_event THEN "done" ELSE "tick")

\* a lock released by hand after the block, which an exception skips
Release_OnSuccess(t, failed) == data_lock' = IF failed THEN t ELSE "free"

\* the end of "with data_lock:", reached by the last statement of the block
\* or by an exception raised in it
Release(t, failed) == data_lock' = "free"

\* the outcome of the last tick of a loop that has failed, kept in op
TickOutcome(failed) == op' = IF failed THEN "tick failed" ELSE op

\* what a pass run by thread t inside data_lock leaves: the registry, and
\* with deletes the staging directory without files_to_delete
LockedPass(r, deletes, t) ==
    /\ call_display_times' = r.call_display_times
    /\ staged' = IF deletes /\ r.status = "returned"
                 THEN delete_files(staged, r.files_to_delete)
                 ELSE staged
    /\ Release(t, r.status = "raised")
    /\ IF deletes THEN TickOutcome(r.status = "raised") ELSE UNCHANGED op

\* monitor_and_transfer_files: the loop test and the listing of the source
MonitorTest ==
    /\ LoopTest("monitor_thread")
    /\ pending' = IF stop_event THEN {} ELSE XmlNames(source)
    /\ UNCHANGED << disk, source, staged, call_display_times, now,
                    call_listbox, op, result, mergeVars, data_lock,
                    stop_event, listing, tick_time, unnamed >>

\* monitor_and_transfer_files: data_lock taken for the next file
MonitorLock ==
    /\ pc["monitor_thread"] = "tick"
    /\ pending # {}
    /\ Acquire("monitor_thread")
    /\ data_lock' = "monitor_thread"
    /\ Goto("monitor_thread", "locked")
    /\ UNCHANGED << disk, source, staged, call_display_times, now,
                    call_listbox, op, result, mergeVars, stop_event, listing,
                    pending, tick_time, unnamed >>

\* monitor_and_transfer_files: the copy of file f unless it is staged, and
\* the release; after the last file the thread waits
MonitorCopy(f) ==
    /\ pc["monitor_thread"] = "locked"
    /\ f \in pending
    /\ staged' = staged \cup {f}
    /\ pending' = pending \ {f}
    /\ Release("monitor_thread", FALSE)
    /\ Goto("monitor_thread", IF pending = {f} THEN "wait" ELSE "tick")
    /\ UNCHANGED << disk, source, call_display_times, now, call_listbox, op,
                    result, mergeVars, stop_event, listing, tick_time,
                    unnamed >>

\* check_for_new_files: the loop test
CheckTest ==
    /\ LoopTest("file_checking_thread")
    /\ UNCHANGED << disk, source, staged, call_display_times, now,
                    call_listbox, op, result, mergeVars, data_lock,
                    stop_event, listing, pending, tick_time, unnamed >>

\* check_for_new_files: data_lock taken, the sorted listing
CheckList ==
    /\ pc["file_checking_thread"] = "tick"
    /\ Acquire("file_checking_thread")
    /\ data_lock' = "file_checking_thread"
    /\ listing' = SortedListing(XmlNames(staged))
    /\ Goto("file_checking_thread", "listed")
    /\ UNCHANGED << disk, source, staged, call_display_times, now,
                    call_listbox, op, result, mergeVars, stop_event, pending,
                    tick_time, unnamed >>

\* check_for_new_files: the pass, the deletions and the release
CheckPass ==
    /\ pc["file_checking_thread"] = "listed"
    /\ LockedPass(process_xml_files(listing, StagedContent,
                                    call_display_times, now),
                  TRUE, "file_checking_thread")
    /\ listing' = <<>>
    /\ Goto("file_checking_thread", "wait")
    /\ UNCHANGED << disk, source, now, call_listbox, result, mergeVars,
                    stop_event, pending, tick_time, unnamed >>

\* cleanup_old_calls: the loop test and the clock read before the lock
CleanupTest ==
    /\ LoopTest("cleanup_thread")
    /\ tick_time' = IF stop_event THEN NoTime ELSE now
    /\ UNCHANGED << disk, source, staged, call_display_times, now,
                    call_listbox, op, result, mergeVars, data_lock,
                    stop_event, listing, pending, unnamed >>

\* cleanup_old_calls: data_lock taken
CleanupLock ==
    /\ pc["cleanup_thread"] = "tick"
    /\ Acquire("cleanup_thread")
    /\ data_lock' = "cleanup_thread"
    /\ Goto("cleanup_thread", "locked")
    /\ UNCHANGED << disk, source, staged, call_display_times, now,
                    call_listbox, op, result, mergeVars, stop_event, listing,
                    pending, tick_time, unnamed >>

\* cleanup_old_calls: the sweep and the release
CleanupSweep ==
    /\ pc["cleanup_thread"] = "locked"
    /\ Sweep(tick_time)
    /\ Release("cleanup_thread", SweepRaises(tick_time))
    /\ TickOutcome(SweepRaises(tick_time))
    /\ tick_time' = NoTime
    /\ Goto("cleanup_thread", "wait")
    /\ UNCHANGED << disk, source, now, call_listbox, result, mergeVars,
                    stop_event, listing, pending, unnamed >>

\* the routes that run a pass, and the route that scans for one call
PassRoutes == {"index", "debug_calls"}

Routes == PassRoutes \cup {"unit_details"}

\* a web request: data_lock taken and the listing, sorted by unit_details
WebList(route) ==
    /\ pc["flask_thread"] = "idle"
    /\ Acquire("flask_thread")
    /\ data_lock' = "flask_thread"
    /\ listing' \in IF route = "unit_details"
                    THEN {SortedListing(XmlNames(staged))}
                    ELSE Listings(XmlNames(staged))
    /\ Goto("flask_thread", route)
    /\ UNCHANGED << disk, source, staged, call_display_times, now,
                    call_listbox, op, result, mergeVars, stop_event, pending,
                    tick_time, unnamed >>

\* index and debug_calls: the pass and the release
WebPass(route) ==
    /\ pc["flask_thread"] = route
    /\ LockedPass(process_xml_files(listing, StagedContent,
                                    call_display_times, now),
                  FALSE, "flask_thread")
    /\ listing' = <<>>
    /\ Goto("flask_thread", "idle")
    /\ UNCHANGED << disk, source, now, call_listbox, result, mergeVars,
                    stop_event, pending, tick_time, unnamed >>

\* unit_details: the scan, which writes nothing, and the release
WebScan ==
    /\ pc["flask_thread"] = "unit_details"
    /\ Release("flask_thread", UnpackRaises(listing, StagedContent, now))
    /\ listing' = <<>>
    /\ Goto("flask_thread", "idle")
    /\ UNCHANGED << disk, source, staged, call_display_times, now,
                    call_listbox, op, result, mergeVars, stop_event, pending,
                    tick_time, unnamed >>

\* refresh_calls of the control panel (on its own, by auto_refresh, or after
\* a deletion): data_lock taken, the sorted listing
GuiList ==
    /\ pc["main"] \in {"idle", "deleted"}
    /\ Acquire("main")
    /\ data_lock' = "main"
    /\ listing' = SortedListing(XmlNames(staged))
    /\ Goto("main", "refresh")
    /\ UNCHANGED << disk, source, staged, call_display_times, now,
                    call_listbox, op, result, mergeVars, stop_event, pending,
                    tick_time, unnamed >>

\* lines 952-957 inside the lock, with r what the pass did
LockedRefill(r) ==
    /\ call_display_times' = r.call_display_times
    /\ call_listbox' =
           IF r.status = "returned"
           THEN UNION {Range(r.calls[i].call_numbers) : i \in 1..Len(r.calls)}
           ELSE call_listbox
    /\ Release("main", r.status = "raised")

\* refresh_calls: the pass, the release and the list box
GuiPass ==
    /\ pc["main"] = "refresh"
    /\ LockedRefill(process_xml_files(listing, StagedContent,
                                      call_display_times, now))
    /\ listing' = <<>>
    /\ Goto("main", "idle")
    /\ UNCHANGED << disk, source, staged, now, op, result, mergeVars,
                    stop_event, pending, tick_time, unnamed >>

\* delete_selected_call: os.remove of a file listed for a call of the list
\* box (line 1025), before refresh_calls is called
GuiRemove(f) ==
    /\ pc["main"] = "idle"
    /\ f \in XmlNames(staged)
    /\ extract_xml_data(disk[f], now).n = 10
    /\ extract_xml_data(disk[f], now).call_number \in call_listbox
    /\ staged' = staged \ {f}
    /\ Goto("main", "deleted")
    /\ UNCHANGED << disk, source, call_display_times, now, call_listbox, op,
                    result, mergeVars, data_lock, stop_event, listing,
                    pending, tick_time, unnamed >>

\* on_closing: stop_monitoring sets stop_event and starts to join the loops,
\* for at most five seconds each
on_closing ==
    /\ pc["main"] = "idle"
    /\ stop_event' = TRUE
    /\ Goto("main", "joining")
    /\ UNCHANGED << disk, source, staged, call_display_times, now,
                    call_listbox, op, result, mergeVars, data_lock, listing,
                    pending, tick_time, unnamed >>

\* the joins have returned or timed out, the window is destroyed, __main__
\* joins once more and the interpreter exits.  A loop in stop_event.wait
\* wakes at once and returns before its join times out; a loop inside a
\* tick may outlast the timeouts, and as a daemon thread it stops where it
\* is when the interpreter exits
Exit ==
    /\ pc["main"] = "joining"
    /\ \A t \in Loops : pc[t] # "wait"
    /\ pc' = [t \in Threads |->
                 IF t = "main" THEN "exited"
                 ELSE IF pc[t] = "done" THEN "done" ELSE "killed"]
    /\ unnamed' = [i \in DOMAIN unnamed |->
                      IF unnamed[i].at = "done" THEN unnamed[i]
                      ELSE [unnamed[i] EXCEPT !.at = "killed"]]
    /\ UNCHANGED << disk, source, staged, call_display_times, now,
                    call_listbox, op, result, mergeVars, data_lock,
                    stop_event, listing, pending, tick_time >>

LoopStep(t) ==
    \/ t = "monitor_thread"
       /\ (MonitorTest \/ MonitorLock \/ \E f \in Files : MonitorCopy(f))
    \/ t = "file_checking_thread" /\ (CheckTest \/ CheckList \/ CheckPass)
    \/ t = "cleanup_thread" /\ (CleanupTest \/ CleanupLock \/ CleanupSweep)

ThreadNext ==
    \/ \E d \in TickSteps : Tick(d)
    \/ \E t \in Loops : LoopStep(t)
    \/ \E route \in Routes : WebList(route)
    \/ \E route \in PassRoutes : WebPass(route)
    \/ WebScan
    \/ GuiList
    \/ GuiPass
    \/ \E f \in Files : GuiRemove(f)
    \/ on_closing
    \/ Exit

ThreadSpec == ThreadInit /\ [][ThreadNext]_vars

(***************************************************************************)
(* The passes of the web routes next to the pass of the Processing loop,   *)
(* over two staged files without units at one location: two updates of a   *)
(* call, or two calls whose names sort in the order of their numbers or    *)
(* against it; the call types and the creation times are drawn from        *)
(* bounded sets                                                            *)
(***************************************************************************)
FIRE_ALARM == <<"F","I","R","E"," ","A","L","A","R","M">>

PairNames ==
    { <<F11, <<"1">>, F12, <<"1">>>>, <<F11, <<"1">>, F21, <<"2">>>>,
      <<F101, <<"1","0">>, F21, <<"2">>>> }

PairTypes == {FIRE, FIRE_ALARM, DRILL}

PairCreates == {Full(5), Full(8)}

PairInit ==
    /\ \E p \in PairNames, type1 \in PairTypes, type2 \in PairTypes,
          create1 \in PairCreates, create2 \in PairCreates :
           disk = (p[1] :> Xml(p[2], NULL, Address("A"), type1, <<>>, create1))
                  @@ (p[3] :> Xml(p[4], NULL, Address("A"), type2, <<>>, create2))
    /\ source = DOMAIN disk
    /\ staged = DOMAIN disk
    /\ call_display_times = <<>>
    /\ now = StartTime
    /\ call_listbox = {}
    /\ op = "start"
    /\ result = NoResult
    /\ existing_units = <<>>
    /\ new_units = <<>>
    /\ merged_units = <<>>
    /\ existing_list = <<>>
    /\ new_list = <<>>
    /\ ThreadsStarted

\* what the pass of a web route leaves, with r what process_xml_files did on
\* the listing: the registry as the pass left it; nothing is deleted
RoutePass(r, files) ==
    /\ call_display_times' = r.call_display_times
    /\ result' = PassResult(r, files)

\* the route '/': the listing as os.listdir returns it, and the pass
index ==
    /\ \E files \in Listings(XmlNames(staged)) :
           RoutePass(process_xml_files(files, disk, call_display_times, now),
                     files)
    /\ op' = "index"
    /\ UNCHANGED << disk, source, staged, now, call_listbox, mergeVars,
                    threadVars >>

\* the route '/debug-calls': the listing as os.listdir returns it, and the
\* pass
debug_calls ==
    /\ \E files \in Listings(XmlNames(staged)) :
           RoutePass(process_xml_files(files, disk, call_display_times, now),
                     files)
    /\ op' = "debug_calls"
    /\ UNCHANGED << disk, source, staged, now, call_listbox, mergeVars,
                    threadVars >>

PairNext ==
    \/ check_for_new_files
    \/ index
    \/ debug_calls

PairSpec == PairInit /\ [][PairNext]_vars

(***************************************************************************)
(* Start-up and shutdown of the program run as a script: the module-level  *)
(* statements, __main__, the ticks of every loop thread that runs (each    *)
(* tick in one step) and the return of the loops once stop_event is set.   *)
(***************************************************************************)
StartInit ==
    /\ disk = DiskThreads
    /\ source = DOMAIN disk
    /\ staged = {}
    /\ call_display_times = <<>>
    /\ now = StartTime
    /\ call_listbox = {}
    /\ op = "start"
    /\ result = NoResult
    /\ existing_units = <<>>
    /\ new_units = <<>>
    /\ merged_units = <<>>
    /\ existing_list = <<>>
    /\ new_list = <<>>
    /\ data_lock = "free"
    /\ stop_event = FALSE
    /\ pc = [t \in Threads |-> IF t = "main" THEN "import" ELSE "unstarted"]
    /\ listing = <<>>
    /\ pending = {}
    /\ tick_time = NoTime
    /\ unnamed = <<>>

\* start_monitoring called by the main thread, which goes on at next: three
\* new threads are started and bound to the global names; the threads that
\* the names referred to run on
start_monitoring(next) ==
    /\ unnamed' = unnamed \o Rebound(pc)
    /\ pc' = [t \in Threads |->
                 IF t \in Loops THEN "wait"
                 ELSE IF t = "main" THEN next ELSE pc[t]]
    /\ UNCHANGED << disk, source, staged, call_display_times, now,
                    call_listbox, op, result, mergeVars, data_lock,
                    stop_event, listing, pending, tick_time >>

\* the module-level statement start_monitoring() of line 821
module_start_monitoring ==
    /\ pc["main"] = "import"
    /\ start_monitoring("__main__")

\* __main__: the web server thread is started
main_run_flask ==
    /\ pc["main"] = "__main__"
    /\ pc' = [pc EXCEPT !["flask_thread"] = "idle", !["main"] = "flask"]
    /\ UNCHANGED << disk, source, staged, call_display_times, now,
                    call_listbox, op, result, mergeVars, data_lock,
                    stop_event, listing, pending, tick_time, unnamed >>

\* __main__: start_monitoring() of line 1045, then the control panel
main_start_monitoring ==
    /\ pc["main"] = "flask"
    /\ start_monitoring("idle")

\* some thread runs the loop whose name is t
Running(t) ==
    \/ pc[t] = "wait"
    \/ \E i \in DOMAIN unnamed :
           unnamed[i].target = t /\ unnamed[i].at = "wait"

\* a tick of a running loop thread, named or not
LoopTick(t) ==
    /\ Running(t)
    /\ ~stop_event
    /\ \/ t = "monitor_thread" /\ monitor_and_transfer_files
       \/ t = "file_checking_thread" /\ check_for_new_files
       \/ t = "cleanup_thread" /\ cleanup_old_calls

\* the loop that the name t refers to finds stop_event set and returns
LoopReturn(t) ==
    /\ stop_event
    /\ pc[t] = "wait"
    /\ Goto(t, "done")
    /\ UNCHANGED << disk, source, staged, call_display_times, now,
                    call_listbox, op, result, mergeVars, data_lock,
                    stop_event, listing, pending, tick_time, unnamed >>

\* a loop without a name finds stop_event set and returns
UnnamedReturn(i) ==
    /\ stop_event
    /\ unnamed[i].at = "wait"
    /\ unnamed' = [unnamed EXCEPT ![i].at = "done"]
    /\ UNCHANGED << disk, source, staged, call_display_times, now,
                    call_listbox, op, result, mergeVars, data_lock,
                    stop_event, pc, listing, pending, tick_time >>

StartNext ==
    \/ module_start_monitoring
    \/ main_run_flask
    \/ main_start_monitoring
    \/ \E t \in Loops : LoopTick(t)
    \/ \E t \in Loops : LoopReturn(t)
    \/ \E i \in DOMAIN unnamed : UnnamedReturn(i)
    \/ on_closing
    \/ Exit

StartSpec == StartInit /\ [][StartNext]_vars

\* the scheduler lets every loop thread that can take a step take one, and
\* the joins of stop_monitoring time out, so that the main thread goes on to
\* exit
ThreadFairSpec ==
    /\ ThreadSpec
    /\ \A t \in Loops : WF_vars(LoopStep(t))
    /\ WF_vars(Exit)

\* the threads that use data_lock, with the clock standing still and no
\* shutdown
LockNext ==
    \/ \E t \in Loops : LoopStep(t)
    \/ \E route \in Routes : WebList(route)
    \/ \E route \in PassRoutes : WebPass(route)
    \/ WebScan
    \/ GuiList
    \/ GuiPass
    \/ \E f \in Files : GuiRemove(f)

\* a thread that can go on does: a loop leaves stop_event.wait and starts its
\* tick, a loop blocked on data_lock, which the others release again and
\* again, gets it, and a thread inside "with data_lock:" reaches the end of
\* the block (weak fairness of the step that leaves the block, which is
\* enabled exactly where the thread is at that step)
LockFairSpec ==
    /\ ThreadInit
    /\ [][LockNext]_vars
    /\ WF_vars(MonitorTest) /\ WF_vars(CheckTest) /\ WF_vars(CleanupTest)
    /\ SF_vars(MonitorLock) /\ SF_vars(CheckList) /\ SF_vars(CleanupLock)
    /\ WF_vars(\E f \in Files : MonitorCopy(f))
    /\ \/ []<>(pc["file_checking_thread"] # "listed")
       \/ []<><<CheckPass>>_vars
    /\ \/ []<>(pc["cleanup_thread"] # "locked")
       \/ []<><<CleanupSweep>>_vars
    /\ \/ []<>(pc["flask_thread"] \notin PassRoutes)
       \/ []<><<\E route \in PassRoutes : WebPass(route)>>_vars
    /\ \/ []<>(pc["flask_thread"] # "unit_details")
       \/ []<><<WebScan>>_vars
    /\ \/ []<>(pc["main"] # "refresh")
       \/ []<><<GuiPass>>_vars

(***************************************************************************)
(* Properties                                                              *)
(***************************************************************************)
\* the snapshot of a staged file at the time of the last pass
Snapshot(f) == extract_xml_data(disk[f], result.at)

Unparsable(f) == Snapshot(f).n # 10

WellNamed(f) == MatchName(f) # NoRecord

\* the call numbers that some file among names closes at the source
ClosedAtSource(names) ==
    {Snapshot(f).call_number :
        f \in {g \in names : /\ ~Unparsable(g)
                              /\ Snapshot(g).call_number # NoText
                              /\ Snapshot(g).close_datetime # NULL}}

\* the call numbers listed by the groups of calls
DisplayedCalls(calls) ==
    UNION {Range(calls[i].call_numbers) : i \in 1..Len(calls)}

PassRan == result.status # "none"

PassReturned == result.status = "returned"

\* C1: an Aggregation Pass never fails outright: whatever files are staged,
\* empty or unparsable ones included, the pass returns, and it returns the
\* incidents and the files to delete it returns for the list without the
\* bad files (a bad file is in no group and is not marked for deletion).
C1_PassNeverFails ==
    PassRan =>
        LET good == SelectSeq(result.xml_files, LAMBDA f : ~Unparsable(f))
            r == process_xml_files(good, disk, call_display_times, result.at)
        IN  /\ PassReturned
            /\ result.calls = r.calls
            /\ result.files_to_delete = r.files_to_delete

\* C2: a Processing-loop tick applies its deletions although a staged file
\* is empty or malformed: after the tick no well-named file of a call that
\* is closed at the source is left in staging next to the bad file.
C2_TickDeletesClosed ==
    (op = "check_for_new_files" /\ \E f \in XmlNames(staged) : Unparsable(f))
        => \A f \in XmlNames(staged) :
               ~(/\ WellNamed(f)
                 /\ ~Unparsable(f)
                 /\ Snapshot(f).call_number \in ClosedAtSource(XmlNames(staged)))

\* C3: in a pass that returns, every well-named file whose call number
\* carries a CloseDateTime in some staged file is in files_to_delete, and no
\* returned group lists that call number, whatever units the file lists.
C3_ClosedAlwaysDropped ==
    PassReturned =>
        LET closed == ClosedAtSource(Range(result.xml_files))
        IN  /\ \A f \in Range(result.xml_files) :
                   (WellNamed(f) /\ Snapshot(f).call_number \in closed)
                       => f \in Range(result.files_to_delete)
            /\ DisplayedCalls(result.calls) \cap closed = {}

\* C3 witness: a pass returned on an open update that lists an engine, of a
\* call that another staged file closes, and marked that update for deletion
C3_Witness ==
    /\ PassReturned
    /\ \E f \in Range(result.xml_files) :
           /\ WellNamed(f)
           /\ Snapshot(f).close_datetime = NULL
           /\ \E i \in 1..Len(Snapshot(f).unit_details) :
                  Lower(Snapshot(f).unit_details[i].unit_type) \in FireTypes
           /\ Snapshot(f).call_number \in ClosedAtSource(Range(result.xml_files))
           /\ f \in Range(result.files_to_delete)

\* C4: after a pass that returns, the registry holds no entry for a call
\* number that some staged file closes at the source.
C4_ClosedNotRegistered ==
    PassReturned =>
        \A c \in ClosedAtSource(Range(result.xml_files)) :
            ~DictHas(call_display_times, c)

\* the units of a snapshot, primary first when the primary unit was filtered
\* out of the unit list at extraction
PrimaryUnit(x) ==
    IF PrimaryOf(x.unit_details) # NoRecord THEN PrimaryOf(x.unit_details)
    ELSE x.primary_unit

\* the decision the fixed rule order gives for a snapshot taken by itself
RuleOrder(x) ==
    LET primary == PrimaryUnit(x)
        agency == IF primary = NoRecord THEN ""
                  ELSE jurisdiction_company_mapping(primary.jurisdiction)
        fireLike == \E i \in 1..Len(x.unit_details) :
                        Lower(x.unit_details[i].unit_type) \in FireTypes
    IN  IF primary # NoRecord /\ Lower(primary.unit_type) \in excluded_unit_types
          THEN <<"Drop", "ExcludedPrimaryUnitType">>
        ELSE IF \E i \in 1..Len(x.unit_details) :
                    is_excluded_unit(x.unit_details[i].unit_id, excluded_units)
          THEN <<"Drop", "ExcludedUnitPresent">>
        ELSE IF agency = "EMS" THEN <<"Drop", "AgencyIsEMS">>
        ELSE IF agency = "Police" /\ ~fireLike
          THEN <<"Drop", "AgencyIsPoliceNoFireUnits">>
        ELSE IF Lower(x.nature_of_call) \in excluded_call_types
          THEN <<"Drop", "ExcludedCallType">>
        ELSE <<"Keep", "">>

\* C5: every Keep or Drop decision of a pass, and its reason, is the first
\* matching rule of the fixed order applied to the snapshot of that file.
C5_FirstMatchingRule ==
    \A i \in 1..Len(result.decisions) :
        LET d == result.decisions[i]
        IN  d.verdict \in {"Keep", "Drop"}
                => <<d.verdict, d.reason>> = RuleOrder(Snapshot(d.file))

\* the entry of a unit list for a unit identifier
UnitOf(list, id) == list[CHOOSE i \in 1..Len(list) : list[i].unit_id = id]

UnitIds(list) == {list[i].unit_id : i \in 1..Len(list)}

IdList(list) == [i \in 1..Len(list) |-> list[i].unit_id]

SharedIds == UnitIds(existing_units) \cap UnitIds(new_units)

Merged == op = "merge_unit_details"

TimeFields == {"enroute_time", "arrive_time", "clear_time"}

\* C6: for a unit identifier in both lists, no timestamp of the merged entry
\* is earlier than a non-null existing one, and none has become null.
C6_NeverBackward ==
    Merged =>
        \A id \in SharedIds : \A f \in TimeFields :
            UnitOf(existing_units, id)[f] # NoTime
                => /\ id \in UnitIds(merged_units)
                   /\ UnitOf(merged_units, id)[f] # NoTime
                   /\ UnitOf(merged_units, id)[f] >= UnitOf(existing_units, id)[f]

\* C6 witness: a merge where the incoming clear time is earlier than the
\* existing one and the incoming arrive time is null where one exists
C6_Witness ==
    /\ Merged
    /\ \E id \in SharedIds :
           /\ UnitOf(new_units, id).clear_time # NoTime
           /\ UnitOf(existing_units, id).clear_time # NoTime
           /\ UnitOf(new_units, id).clear_time < UnitOf(existing_units, id).clear_time
           /\ UnitOf(new_units, id).arrive_time = NoTime
           /\ UnitOf(existing_units, id).arrive_time # NoTime
           /\ id \in UnitIds(merged_units)

\* C7: for a unit identifier in both lists, each timestamp of the merged
\* entry is the incoming value when that is non-null and the existing one is
\* null or strictly earlier, and the existing value otherwise, field by field.
C7_ReplaceExactlyWhenLater ==
    Merged =>
        \A id \in SharedIds : \A f \in TimeFields :
            LET e == UnitOf(existing_units, id)[f]
                n == UnitOf(new_units, id)[f]
            IN  /\ id \in UnitIds(merged_units)
                /\ UnitOf(merged_units, id)[f] =
                       IF n # NoTime /\ (e = NoTime \/ e < n) THEN n ELSE e

\* C7 witness: one merge replaces the arrive time, keeps a later clear time
\* and keeps the enroute time against a null incoming one
C7_Witness ==
    /\ Merged
    /\ \E id \in SharedIds :
           LET e == UnitOf(existing_units, id)
               n == UnitOf(new_units, id)
               m == UnitOf(merged_units, id)
           IN  /\ id \in UnitIds(merged_units)
               /\ e.arrive_time # NoTime /\ n.arrive_time # NoTime
               /\ e.arrive_time < n.arrive_time /\ m.arrive_time = n.arrive_time
               /\ e.clear_time # NoTime /\ n.clear_time # NoTime
               /\ n.clear_time < e.clear_time /\ m.clear_time = e.clear_time
               /\ e.enroute_time # NoTime /\ n.enroute_time = NoTime
               /\ m.enroute_time = e.enroute_time

\* C8: the result lists each unit identifier once: the existing identifiers
\* in their order, then the incoming-only identifiers whose type is not
\* excluded, in incoming order.
C8_OnePerIdInOrder ==
    Merged =>
        /\ UniqueIds(merged_units)
        /\ IdList(merged_units) =
               IdList(existing_units) \o
               IdList(SelectSeq(new_units,
                   LAMBDA u : /\ u.unit_id \notin UnitIds(existing_units)
                              /\ ~InList(Lower(u.unit_type), excluded_units)))

\* C8 witness: two existing units, then an incoming list with a unit already
\* known and a new one that is added behind them; and an incoming-only unit
\* of an excluded type that is left out
C8_Witness ==
    /\ Merged
    /\ \/ /\ Len(existing_units) = 2
          /\ Len(new_units) = 2
          /\ new_units[1].unit_id \notin UnitIds(existing_units)
          /\ new_units[2].unit_id \in UnitIds(existing_units)
          /\ Len(merged_units) = 3
          /\ merged_units[3].unit_id = new_units[1].unit_id
       \/ /\ existing_units # <<>>
          /\ \E i \in 1..Len(new_units) :
                 /\ new_units[i].unit_id \notin UnitIds(existing_units)
                 /\ InList(Lower(new_units[i].unit_type), excluded_units)
                 /\ new_units[i].unit_id \notin UnitIds(merged_units)

\* the last step ran a pass on the list of the pass before it
RanAgain == PassRan /\ result.again # NoTime

SameOutput ==
    /\ result'.status = result.status
    /\ result'.calls = result.calls
    /\ result'.files_to_delete = result.files_to_delete
    /\ call_display_times' = call_display_times

\* C9 as stated: a pass run again on the same unchanged list returns the
\* same groups and the same files to delete, and leaves the registry as the
\* first run left it.
C9_Idempotent ==
    [][(result' # result /\ RanAgain') => SameOutput]_vars

\* C9: a pass run again on the same unchanged list on the same calendar day
\* returns the same groups and the same files to delete, and leaves the
\* registry as the first run left it.
C9_IdempotentSameDay ==
    [][(result' # result /\ RanAgain' /\ Today(result'.again) = Today(result'.at))
           => SameOutput]_vars

\* C9 witness: a second run, later on the same day, that returned a group
\* with a merged unit list and a file to delete
C9_Witness ==
    /\ RanAgain
    /\ PassReturned
    /\ Today(result.again) = Today(result.at)
    /\ result.again < result.at
    /\ result.files_to_delete # <<>>
    /\ \E i \in 1..Len(result.calls) : Len(result.calls[i].unit_details) > 1

Kept(f) ==
    \E i \in 1..Len(result.decisions) :
        result.decisions[i].file = f /\ result.decisions[i].verdict = "Keep"

SequenceNumber(f) == IntOf(MatchName(f).timestamp)

\* the unit identifiers that, among the files of the last pass, only f lists
OnlyIn(f) ==
    {u \in UnitIds(Snapshot(f).unit_details) :
        \A g \in Range(result.xml_files) \ {f} :
            u \notin UnitIds(Snapshot(g).unit_details)}

\* C10: when two staged files of one call with different sequence numbers
\* both pass filtering, the lower one is in files_to_delete and no unit that
\* only the lower one lists is in a returned group.
C10_OnlyHighestSequence ==
    PassReturned =>
        \A f, g \in Range(result.xml_files) :
            (/\ Kept(f) /\ Kept(g)
             /\ Snapshot(f).call_number = Snapshot(g).call_number
             /\ SequenceNumber(f) < SequenceNumber(g))
                => /\ f \in Range(result.files_to_delete)
                   /\ \A i \in 1..Len(result.calls) :
                          UnitIds(result.calls[i].unit_details) \cap OnlyIn(f) = {}

\* the position of a file in the list of the last pass
Position(f) == CHOOSE i \in 1..Len(result.xml_files) : result.xml_files[i] = f

\* the groups of the last pass that list a call number
GroupsOf(c) ==
    {i \in 1..Len(result.calls) : InList(c, result.calls[i].call_numbers)}

\* two kept files of different calls with one location key, f before g
SharedLocation(f, g) ==
    /\ Kept(f) /\ Kept(g)
    /\ Position(f) < Position(g)
    /\ Snapshot(f).call_number # Snapshot(g).call_number
    /\ Snapshot(f).location = Snapshot(g).location

\* C11 as stated: two kept snapshots of different calls at one location key
\* give exactly one group, which lists both call numbers and whose unit list
\* is the merge of the two snapshots' unit lists.
C11_OneGroupMergedUnits ==
    PassReturned =>
        \A f, g \in Range(result.xml_files) :
            SharedLocation(f, g) =>
                /\ GroupsOf(Snapshot(f).call_number) = GroupsOf(Snapshot(g).call_number)
                /\ \E i \in 1..Len(result.calls) :
                       /\ GroupsOf(Snapshot(f).call_number) = {i}
                       /\ result.calls[i].unit_details =
                              merge_unit_details(Snapshot(f).unit_details,
                                                 Snapshot(g).unit_details)

\* C11: two kept snapshots of different calls at one location key give
\* exactly one group, which lists both call numbers and whose unit list is
\* the merge of the two snapshots' unit lists without the cleared units.
C11_OneGroupMergedDisplayed ==
    PassReturned =>
        \A f, g \in Range(result.xml_files) :
            SharedLocation(f, g) =>
                /\ GroupsOf(Snapshot(f).call_number) = GroupsOf(Snapshot(g).call_number)
                /\ \E i \in 1..Len(result.calls) :
                       /\ GroupsOf(Snapshot(f).call_number) = {i}
                       /\ result.calls[i].unit_details =
                              DisplayedUnits(
                                  merge_unit_details(Snapshot(f).unit_details,
                                                     Snapshot(g).unit_details))

\* C11 witness: a returned group of two calls in which a unit both snapshots
\* list carries an arrive time that only the second snapshot has
C11_Witness ==
    /\ PassReturned
    /\ \E f, g \in Range(result.xml_files) :
           /\ SharedLocation(f, g)
           /\ \E i \in 1..Len(result.calls), k \in 1..2 :
                  /\ Len(result.calls[i].call_numbers) = 2
                  /\ Len(result.calls[i].unit_details) = 2
                  /\ Len(Snapshot(f).unit_details) >= k
                  /\ Snapshot(f).unit_details[k].unit_id = U1
                  /\ Snapshot(f).unit_details[k].arrive_time = NoTime
                  /\ result.calls[i].unit_details[k].unit_id = U1
                  /\ result.calls[i].unit_details[k].arrive_time # NoTime

\* the display age cleanup_old_calls observes for a registry entry
DisplayAge(item) == now - item.display_time

\* the staged files whose parsed call number is c
BackingFiles(c) ==
    {f \in XmlNames(staged) : extract_xml_data(disk[f], now).call_number = c}

\* C12: a tick of the Retention Sweeper leaves every registry entry whose
\* display age is 360 minutes or less in the registry, and leaves the files
\* of that call in staging.
C12_NeverEarly ==
    [][op' = "cleanup_old_calls" =>
          \A i \in 1..Len(call_display_times) :
              DisplayAge(call_display_times[i]) <= 360 =>
                  /\ DictHas(call_display_times', call_display_times[i].call_number)
                  /\ BackingFiles(call_display_times[i].call_number) \subseteq staged'
      ]_vars

\* C12 witness: the sweeper has run at a time when a registered call is
\* exactly 360 minutes old; the call is still registered and has its file
C12_Witness ==
    /\ op = "cleanup_old_calls"
    /\ \E i \in 1..Len(call_display_times) :
           /\ DisplayAge(call_display_times[i]) = 360
           /\ BackingFiles(call_display_times[i].call_number) # {}

\* C13: a tick of the Retention Sweeper that observes registry entries older
\* than 360 minutes ends with none of those calls registered and with no
\* staged file whose parsed call number is one of them, whatever else is
\* staged.
C13_ExpiredAllGone ==
    [][op' = "cleanup_old_calls" =>
          \A i \in 1..Len(call_display_times) :
              DisplayAge(call_display_times[i]) > 360 =>
                  /\ ~DictHas(call_display_times', call_display_times[i].call_number)
                  /\ FilesOfCall(staged', call_display_times[i].call_number, now) = {}
      ]_vars

\* C14: in the incident list a pass returns, each call number is listed by
\* at most one group, also when the successive files of a call report
\* different locations.
C14_OneGroupPerCall ==
    PassReturned =>
        \A c \in DisplayedCalls(result.calls) : Cardinality(GroupsOf(c)) <= 1

\* C15: in every group a pass returns, every listed unit has no clear
\* timestamp and a type outside the exclusion list.
C15_OnlyActiveUnits ==
    PassReturned =>
        \A i \in 1..Len(result.calls) :
            \A k \in 1..Len(result.calls[i].unit_details) :
                /\ result.calls[i].unit_details[k].clear_time = NoTime
                /\ ~InList(Lower(result.calls[i].unit_details[k].unit_type),
                           excluded_units)

\* C15 witness: a returned pass merged, into one group, a snapshot that lists
\* a cleared unit and a later snapshot of another call that lists a unit
\* still active, which the group shows
C15_Witness ==
    /\ PassReturned
    /\ \E f, g \in Range(result.xml_files) :
           /\ SharedLocation(f, g)
           /\ \E k \in 1..Len(Snapshot(f).unit_details) :
                  Snapshot(f).unit_details[k].clear_time # NoTime
           /\ \E i \in GroupsOf(Snapshot(g).call_number) :
                  result.calls[i].unit_details # <<>>

\* the file reached the classification of the last pass
Classified(f) ==
    \E i \in 1..Len(result.decisions) : result.decisions[i].file = f

\* C19: a file that comes later in the iteration order than a classified file
\* of the same call and has a lower or equal sequence number is in
\* files_to_delete, and no unit that only it lists is in a returned group.
C19_StaleFileDeleted ==
    PassReturned =>
        \A f, g \in Range(result.xml_files) :
            (/\ Classified(g)
             /\ WellNamed(f) /\ ~Unparsable(f)
             /\ Snapshot(f).call_number = Snapshot(g).call_number
             /\ Position(g) < Position(f)
             /\ SequenceNumber(f) <= SequenceNumber(g))
                => /\ f \in Range(result.files_to_delete)
                   /\ \A i \in 1..Len(result.calls) :
                          UnitIds(result.calls[i].unit_details) \cap OnlyIn(f) = {}

\* the dict primary_units before any file of the pass was classified
NoPrimaryUnits == <<>>

\* C20: the Keep or Drop decision on a file is the decision its own snapshot
\* gets from the policy tables alone, whatever files of the call were
\* classified before it in the pass.
C20_Stateless ==
    \A i \in 1..Len(result.decisions) :
        result.decisions[i].verdict \in {"Keep", "Drop"}
            => result.decisions[i].verdict =
                   Classify(Snapshot(result.decisions[i].file), NoPrimaryUnits).verdict

\* the thread t takes the step
Acts(t) == pc'[t] # pc[t]

\* the thread has listed the staging directory for a pass that has not ended
InPass(t) ==
    \/ t = "file_checking_thread" /\ pc[t] = "listed"
    \/ t = "flask_thread" /\ pc[t] \in Routes
    \/ t = "main" /\ pc[t] = "refresh"

\* C16: every step that deletes a staged file or writes the registry is
\* taken by a thread that holds data_lock, a thread between its listing and
\* the end of its pass holds data_lock, and no staged file is deleted while
\* another thread is between its listing and the end of its pass.
C16_LockSerializes ==
    [][/\ (staged' # staged /\ staged' \subseteq staged)
           => \E t \in Threads : Acts(t) /\ data_lock = t
       /\ call_display_times' # call_display_times
           => \E t \in Threads : Acts(t) /\ data_lock = t
       /\ \A t \in Threads : InPass(t) => data_lock = t
       /\ (staged' # staged /\ staged' \subseteq staged)
           => \A t \in Threads : InPass(t) => Acts(t)
      ]_vars

\* C17: from its listing to the end of its pass or scan a web request holds
\* data_lock, and no step of the Intake, Processing or Retention loop taken
\* meanwhile adds or deletes a staged file or changes the registry.
C17_WebReadsUnderLock ==
    [][pc["flask_thread"] \in Routes =>
          /\ data_lock = "flask_thread"
          /\ \A t \in Loops :
                 Acts(t) => UNCHANGED << staged, call_display_times >>
      ]_vars

\* C17 witness: a web request has listed a staged file and has not ended its
\* pass, while the three loops are in a tick and wait for data_lock, the
\* Intake loop with a file to copy and the Retention loop with an expired call
C17_Witness ==
    /\ pc["flask_thread"] \in PassRoutes
    /\ listing # <<>>
    /\ pc["monitor_thread"] = "tick" /\ pending \ staged # {}
    /\ pc["file_checking_thread"] = "tick"
    /\ pc["cleanup_thread"] = "tick"
    /\ ToRemove(call_display_times, tick_time) # <<>>

\* the loop has passed its stop_event test and has not reached its wait
InTick(t) == pc[t] \in {"tick", "locked", "listed"}

\* C18: once stop_event is set a loop that reaches its test starts no tick
\* and returns, a tick in progress runs to its end and is not cut short,
\* and eventually every loop has exited.
C18_Cancellation ==
    /\ [][\A t \in Loops :
              /\ (stop_event /\ pc[t] = "wait") => pc'[t] \in {"wait", "done"}
              /\ InTick(t) => (InTick(t)' \/ pc'[t] = "wait")
         ]_vars
    /\ stop_event ~> (\A t \in Loops : pc[t] = "done")

\* the last pass was the on-demand pass of a web route
RoutePassRan == PassRan /\ op \in {"index", "debug_calls"}

\* what the pass of the Processing loop returns for the files of the last
\* pass: the pass over the sorted listing
SortedPass ==
    process_xml_files(SortedListing(Range(result.xml_files)), disk,
                      call_display_times, result.at)

\* C21: the pass of a web route returns the incident list that the pass of
\* the Processing loop returns for the same staged files, in whatever order
\* the directory listing gave the names.
C21_RoutePassSameAsSorted ==
    RoutePassRan =>
        /\ result.status = SortedPass.status
        /\ result.calls = SortedPass.calls

\* the pass over the staged files whose names match the pattern
WellNamedPass ==
    process_xml_files(SelectSeq(SortedListing(XmlNames(staged)),
                                LAMBDA f : MatchName(f) # NoRecord),
                      disk, call_display_times, now)

\* C22: a staged file whose name does not match <digits>_<digits>.xml has no
\* effect on a pass of the Processing loop: the incident list, the files to
\* delete and the registry after the pass are those of the pass over the
\* staged files without it.
C22_MisnamedHasNoEffect ==
    [][op' = "check_for_new_files" =>
          /\ result'.status = WellNamedPass.status
          /\ result'.calls = WellNamedPass.calls
          /\ result'.files_to_delete = WellNamedPass.files_to_delete
          /\ call_display_times' = WellNamedPass.call_display_times
      ]_vars

\* the operations of the pipeline that run an Aggregation Pass
PassOps == {"check_for_new_files", "refresh_calls", "delete_selected_call"}

\* the pass with outcome r kept a file of call c
KeptCall(r, c) ==
    \E i \in 1..Len(r.decisions) :
        r.decisions[i].call_number = c /\ r.decisions[i].verdict = "Keep"

\* the display time the registry holds for call c
DisplayTime(registry, c) ==
    registry[CHOOSE i \in 1..Len(registry) : registry[i].call_number = c].display_time

Contributors(i) ==
    SelectSeq(result.xml_files,
              LAMBDA f : /\ Kept(f)
                         /\ InList(Snapshot(f).call_number,
                                   result.calls[i].call_numbers))

\* the values of a sequence, each once, in the order of first occurrence
RECURSIVE Distinct(_)
Distinct(seq) ==
    IF seq = <<>> THEN <<>>
    ELSE LET front == Distinct(SubSeq(seq, 1, Len(seq) - 1))
         IN  IF InList(seq[Len(seq)], front) THEN front
             ELSE Append(front, seq[Len(seq)])

\* the texts of a sequence joined with ", "
RECURSIVE CommaJoined(_)
CommaJoined(texts) ==
    IF Len(texts) = 1 THEN texts[1]
    ELSE CommaJoined(SubSeq(texts, 1, Len(texts) - 1))
             \o CommaSpace \o texts[Len(texts)]

\* C24: the call-type text of every returned group is the comma-joined list
\* of the distinct call types of the snapshots that contributed to it, each
\* once, also when one value is a substring of another.
C24_CallTypeUnion ==
    PassReturned =>
        \A i \in 1..Len(result.calls) :
            result.calls[i].nature_of_call =
                CommaJoined(Distinct(
                    [k \in 1..Len(Contributors(i)) |->
                        Snapshot(Contributors(i)[k]).nature_of_call]))

\* the creation time of the snapshot of file f as the pass reads it
CreatedAt(f) ==
    convert_utc_to_est_time(parse_datetime(Snapshot(f).root.CreateDateTime,
                                           result.at))

\* C25: the creation time of every returned group is the earliest creation
\* time among the snapshots that contributed to it, in whatever order the
\* pass processed them.
C25_EarliestCreation ==
    PassReturned =>
        \A i \in 1..Len(result.calls) :
            \A f \in Range(Contributors(i)) :
                result.calls[i].create_date_time <= CreatedAt(f)

\* the last pass classified file f as Drop
Dropped(f) ==
    \E i \in 1..Len(result.decisions) :
        result.decisions[i].file = f /\ result.decisions[i].verdict = "Drop"

\* the well-named files of the last pass whose snapshot is of call c
FilesFor(c) ==
    {f \in Range(result.xml_files) :
        WellNamed(f) /\ ~Unparsable(f) /\ Snapshot(f).call_number = c}

\* C26: a call whose highest-sequence file was dropped is in no returned
\* group, and every displayed call number has a file of the pass that is
\* not in files_to_delete.
C26_DroppedCallNotDisplayed ==
    PassReturned =>
        /\ \A f \in Range(result.xml_files) :
               (/\ Dropped(f)
                /\ \A g \in FilesFor(Snapshot(f).call_number) :
                       SequenceNumber(g) <= SequenceNumber(f))
                   => Snapshot(f).call_number \notin DisplayedCalls(result.calls)
        /\ \A c \in DisplayedCalls(result.calls) :
               FilesFor(c) \ Range(result.files_to_delete) # {}

\* the files the Processing loop has just deleted from staging
JustDeleted ==
    IF op = "check_for_new_files" /\ PassReturned
    THEN Range(result.files_to_delete)
    ELSE {}

\* C27: a step that leaves the source directory as it is does not put back
\* into staging a file the Processing loop has just deleted from it (the
\* first step of "never present in staging again").
C27_DeletedStaysDeleted ==
    [][source' = source => JustDeleted \cap staged' = {}]_vars

InLock(t) ==
    \/ t \in Loops /\ pc[t] \in {"locked", "listed"}
    \/ t = "flask_thread" /\ pc[t] \in Routes
    \/ t = "main" /\ pc[t] = "refresh"

Instances(t) ==
    (IF pc[t] \in {"unstarted", "done", "killed"} THEN 0 ELSE 1)
    + Cardinality({i \in DOMAIN unnamed :
                      unnamed[i].target = t /\ unnamed[i].at = "wait"})

\* C30: at every moment at most one thread runs each of the three loops,
\* and once stop_monitoring has been called every loop thread that was
\* started is one of the threads it joins, the ones the globals name.
C30_OneInstancePerLoop ==
    /\ \A t \in Loops : Instances(t) <= 1
    /\ pc["main"] \in {"joining", "exited"} => unnamed = <<>>

\* C31: a call of merge_unit_details leaves the two argument lists and
\* every unit record in them as they were before the call.
C31_MergeIsPure ==
    [][op' = "merge_unit_details" =>
          /\ existing_list' = existing_list
          /\ new_list' = new_list
      ]_vars

\* the numeric value of the first call identifier of group i
FirstId(i) == IntOf(result.calls[i].call_numbers[1])

\* C32: the list a pass returns is in non-increasing order of the numeric
\* value of the first call identifier of its groups, and the display
\* identifier of a group is the call identifiers of the files that
\* contributed to it, each once, in the order the pass met them, joined
\* with ", ".
C32_SortedAndJoined ==
    PassReturned =>
        /\ \A i, j \in 1..Len(result.calls) : i < j => FirstId(i) >= FirstId(j)
        /\ \A i \in 1..Len(result.calls) :
               /\ result.calls[i].call_number =
                      CommaJoined(result.calls[i].call_numbers)
               /\ result.calls[i].call_numbers =
                      Distinct([k \in 1..Len(Contributors(i)) |->
                                   Snapshot(Contributors(i)[k]).call_number])

\* C32 witness: a pass over the files of call 1 and of call 2, in this
\* order, has returned two groups, the group of call 2 first
C32_Witness ==
    /\ PassReturned
    /\ Len(result.xml_files) = 2
    /\ Snapshot(result.xml_files[1]).call_number = <<"1">>
    /\ Snapshot(result.xml_files[2]).call_number = <<"2">>
    /\ Len(result.calls) = 2
    /\ result.calls[1].call_number = <<"2">>
    /\ result.calls[2].call_number = <<"1">>

====
